---- MODULE Spec2Model ----
(***************************************************************************)
(* A model of redis-go: the command processor with its per-connection      *)
(* MULTI/EXEC/DISCARD state, the handlers it dispatches to (each handler   *)
(* is one shared object whose writer field is re-pointed on every          *)
(* command), the in-memory key-value and list stores, the stream entries   *)
(* kept in the key-value store under "<key>:<id>", and the reply encoder   *)
(* with the capturing connection EXEC uses.                                *)
(*                                                                         *)
(* Bytes on the wire are sequences of tokens: a prefix character, a        *)
(* decimal number as text, the "\r\n" terminator, or a run of payload      *)
(* bytes that holds no "\r\n".                                             *)
(***************************************************************************)
EXTENDS Integers, Sequences, FiniteSets, TLC

\* ---------------------------------------------------------------- bounds
\* commands one connection sends in a run
MaxCmds == 4
\* commands the second (interfering) connection sends in a run
MaxOther == 1
\* XADD commands one connection sends in a run
MaxAdds == 2
\* BLPOP commands one blocking connection sends in a run
MaxBlock == 1
\* RPUSH commands the pushing connection sends in a run
MaxPush == 2
\* XREAD commands the reading connection sends in a run
MaxReads == 1
\* commands the first connection sends in a run on one key
MaxKeyCmds == 3
\* SET commands and GET commands a connection sends in a run with expiries
MaxSets == 2
MaxGets == 2
\* times the clock advances in a run
MaxTicks == 3
\* commands the connection sends in a run of SET, GET and INCR
MaxIncrCmds == 3
\* LRANGE commands the reading connection sends in a run
MaxRanges == 1
\* frames the client of the first connection writes in a run
MaxFrames == 2
\* bytes of the short segments the network delivers a client's bytes in
Chunk == 9

Conns == {"c1", "c2", "c3"}

\* Decimal integers strconv.Atoi / strconv.ParseInt read in the model.
NumRange == -4 .. (2 * MaxCmds + 6)

CRLF == "\r\n"

\* ------------------------------------------------------ strconv helpers
\* strconv.Atoi: the integer a decimal string denotes, or an error.
Decimal == [i \in NumRange |-> ToString(i)]

Atoi(s) ==
    IF \E i \in NumRange : Decimal[i] = s
    THEN [ok |-> TRUE, v |-> CHOOSE i \in NumRange : Decimal[i] = s]
    ELSE [ok |-> FALSE, v |-> 0]

\* strconv.Itoa / fmt %d
Itoa(i) == ToString(i)

\* strconv.FormatInt(timestamp) + "-" + strconv.FormatInt(sequence)
FormatID(timestamp, sequence) == ToString(timestamp) \o "-" \o ToString(sequence)

\* ------------------------------------------------------ the type int
\* An int is 64 bits wide, two's complement. It is written here as its four
\* 16-bit words, the highest first, so that the arithmetic wraps as the
\* machine's does.
Word == 65536

Zero64 == <<0, 0, 0, 0>>

\* x + d for a small d >= 0, modulo 2^64: the sum and the carry out of the
\* highest word.
RECURSIVE AddSmall(_, _, _)
AddSmall(x, d, k) ==
    IF k = 0 THEN [v |-> x, carry |-> d]
    ELSE AddSmall([x EXCEPT ![k] = (x[k] + d) % Word], (x[k] + d) \div Word, k - 1)

\* intValue++
Inc64(x) == AddSmall(x, 1, 4).v

\* -x
Neg64(x) == Inc64([k \in 1 .. 4 |-> (Word - 1) - x[k]])

\* x * 10 + d for a digit d, modulo 2^64, and the carry out of the highest word.
RECURSIVE MulAdd10(_, _, _)
MulAdd10(x, d, k) ==
    IF k = 0 THEN [v |-> x, carry |-> d]
    ELSE MulAdd10([x EXCEPT ![k] = (x[k] * 10 + d) % Word],
                  (x[k] * 10 + d) \div Word, k - 1)

\* x divided by 10, x read as unsigned: the quotient and the remainder.
RECURSIVE DivMod10(_, _, _)
DivMod10(x, r, k) ==
    IF k > 4 THEN [q |-> x, r |-> r]
    ELSE DivMod10([x EXCEPT ![k] = (r * Word + x[k]) \div 10],
                  (r * Word + x[k]) % 10, k + 1)

\* The int a small integer of the model denotes, and back.
Int64(i) ==
    IF i >= 0 THEN <<0, 0, i \div Word, i % Word>>
    ELSE Neg64(<<0, 0, (-i) \div Word, (-i) % Word>>)

IsNeg64(x) == x[1] >= Word \div 2

DigitValue ==
    [ch \in {"0", "1", "2", "3", "4", "5", "6", "7", "8", "9"} |->
        CASE ch = "0" -> 0 [] ch = "1" -> 1 [] ch = "2" -> 2 [] ch = "3" -> 3
          [] ch = "4" -> 4 [] ch = "5" -> 5 [] ch = "6" -> 6 [] ch = "7" -> 7
          [] ch = "8" -> 8 [] ch = "9" -> 9]

\* The digits of s read from the left into the unsigned acc; ok is FALSE at
\* a character that is no digit and when the number passes 2^64 - 1.
RECURSIVE ParseDigits(_, _)
ParseDigits(s, acc) ==
    IF s = "" THEN [ok |-> TRUE, v |-> acc]
    ELSE IF Head(s) \notin DOMAIN DigitValue THEN [ok |-> FALSE, v |-> Zero64]
    ELSE LET m == MulAdd10(acc, DigitValue[Head(s)], 4)
         IN  IF m.carry > 0 THEN [ok |-> FALSE, v |-> Zero64]
             ELSE ParseDigits(Tail(s), m.v)

\* strconv.Atoi at the full width of int: an optional sign and decimal
\* digits; an error for any other text and for a number outside
\* -2^63 .. 2^63 - 1.
Atoi64(s) ==
    LET neg == s # "" /\ Head(s) = "-"
        digits == IF s # "" /\ Head(s) \in {"+", "-"} THEN Tail(s) ELSE s
        un == ParseDigits(digits, Zero64)
        min == <<Word \div 2, 0, 0, 0>>
    IN  IF digits = "" \/ ~un.ok THEN [ok |-> FALSE, v |-> Zero64]
        ELSE IF ~neg /\ IsNeg64(un.v) THEN [ok |-> FALSE, v |-> Zero64]
        ELSE IF neg /\ IsNeg64(un.v) /\ un.v # min THEN [ok |-> FALSE, v |-> Zero64]
        ELSE [ok |-> TRUE, v |-> IF neg THEN Neg64(un.v) ELSE un.v]

\* The decimal digits of the unsigned x.
RECURSIVE FormatUint64(_)
FormatUint64(x) ==
    LET d == DivMod10(x, 0, 1)
    IN  IF d.q = Zero64 THEN ToString(d.r)
        ELSE FormatUint64(d.q) \o ToString(d.r)

\* strconv.Itoa at the full width of int
Itoa64(x) ==
    IF IsNeg64(x) THEN "-" \o FormatUint64(Neg64(x)) ELSE FormatUint64(x)

\* ------------------------------------------------------- reply encoder
formatBulkString(s) == <<"$", Itoa(Len(s)), CRLF, s, CRLF>>

formatNullBulkString == <<"$", "-1", CRLF>>

formatArrayHeader(n) == <<"*", Itoa(n), CRLF>>

WriteSimpleString(s) == <<"+", s, CRLF>>

WriteBulkString(s) == formatBulkString(s)

WriteInteger(i) == <<":", Itoa(i), CRLF>>

\* WriteInteger of an int at its full width
WriteInteger64(x) == <<":", Itoa64(x), CRLF>>

WriteError(e) == <<"-", e, CRLF>>

RECURSIVE ConcatBulk(_)
ConcatBulk(items) ==
    IF items = <<>> THEN <<>>
    ELSE formatBulkString(Head(items)) \o ConcatBulk(Tail(items))

WriteArray(items) == formatArrayHeader(Len(items)) \o ConcatBulk(items)

WriteNullBulkString == formatNullBulkString

WriteNullArray == <<"*", "-1", CRLF>>

WriteEmptyArray == <<"*", "0", CRLF>>

\* A RespValue: Type, and a Value that is nil (Null), a string or an int.
RespValue(t, null, s, i) == [Type |-> t, Null |-> null, Str |-> s, Int |-> i]

\* formatRespValue: one element of the EXEC reply. Only four types have a
\* case; every other type (ArrayType) falls to the default, the null bulk.
formatRespValue(value) ==
    CASE value.Type = "SimpleString" -> <<"+", value.Str, CRLF>>
      [] value.Type = "BulkString" ->
            IF value.Null THEN formatNullBulkString
            ELSE formatBulkString(value.Str)
      [] value.Type = "IntegerType" -> <<":", Itoa(value.Int), CRLF>>
      [] value.Type = "ErrorType" -> <<"-", value.Str, CRLF>>
      [] OTHER -> formatNullBulkString

RECURSIVE ConcatResp(_)
ConcatResp(results) ==
    IF results = <<>> THEN <<>>
    ELSE formatRespValue(Head(results)) \o ConcatResp(Tail(results))

WriteTransactionResults(results) ==
    formatArrayHeader(Len(results)) \o ConcatResp(results)

\* ------------------------------------------------------------ ParseRESP
\* The bytes a sequence of encoder tokens puts on the wire.
RECURSIVE Bytes(_)
Bytes(tokens) ==
    IF tokens = <<>> THEN "" ELSE Head(tokens) \o Bytes(Tail(tokens))

\* The zero byte make() fills a buffer with, written as a character no
\* client sends.
NUL == "~"

\* bufio.Reader.ReadString('\n') from position p: the position of the last
\* byte it returns, the delimiter or, when there is none, the last byte.
RECURSIVE LineEnd(_, _)
LineEnd(b, p) ==
    IF p >= Len(b) THEN Len(b)
    ELSE IF SubSeq(b, p, p) = "\n" THEN p
    ELSE LineEnd(b, p + 1)

\* strings.TrimSuffix
TrimSuffix(s, suffix) ==
    IF /\ Len(s) >= Len(suffix)
       /\ SubSeq(s, Len(s) - Len(suffix) + 1, Len(s)) = suffix
    THEN SubSeq(s, 1, Len(s) - Len(suffix))
    ELSE s

\* io.ReadFull into make([]byte, n): the n bytes from position p, zero
\* bytes where the request has ended.
RECURSIVE ReadFull(_, _, _)
ReadFull(b, p, n) ==
    IF n = 0 THEN ""
    ELSE (IF p <= Len(b) THEN SubSeq(b, p, p) ELSE NUL) \o ReadFull(b, p + 1, n - 1)

\* An array RespValue: Value is nil (Null) or the items.
RespArray(null, items) == [Type |-> "ArrayType", Null |-> null, Items |-> items]

\* What ParseRESP returns from position p of the request b: an error, or a
\* value and the position of the next unread byte; or it panics, in make()
\* with a negative length or in the slice buf[:length].
ParseError == [err |-> TRUE, panic |-> FALSE, value |-> <<>>, next |-> 0]

ParsePanic == [err |-> FALSE, panic |-> TRUE, value |-> <<>>, next |-> 0]

Parsed(v, p) == [err |-> FALSE, panic |-> FALSE, value |-> v, next |-> p]

RECURSIVE ParseRESP(_, _)
RECURSIVE ParseItems(_, _, _, _)
ParseRESP(b, p) ==
    IF p > Len(b) THEN ParseError
    ELSE LET prefix == SubSeq(b, p, p)
             e == LineEnd(b, p + 1)
             line == TrimSuffix(SubSeq(b, p + 1, e), CRLF)
             n == Atoi(line).v
         IN  CASE prefix = "+" -> Parsed(RespValue("SimpleString", FALSE, line, 0), e + 1)
               [] prefix = "-" -> Parsed(RespValue("ErrorType", FALSE, line, 0), e + 1)
               [] prefix = ":" -> Parsed(RespValue("IntegerType", FALSE, "", n), e + 1)
               [] prefix = "$" ->
                    IF n = -1 THEN Parsed(RespValue("BulkString", TRUE, "", 0), e + 1)
                    ELSE IF n < 0 THEN ParsePanic
                    ELSE Parsed(RespValue("BulkString", FALSE, ReadFull(b, e + 1, n), 0),
                                e + n + 3)
               [] prefix = "*" ->
                    IF n = -1 THEN Parsed(RespArray(TRUE, <<>>), e + 1)
                    ELSE IF n < 0 THEN ParsePanic
                    ELSE ParseItems(b, e + 1, n, <<>>)
               [] OTHER -> ParseError

\* The loop of the array case: count more items from position p.
ParseItems(b, p, count, items) ==
    IF count = 0 THEN Parsed(RespArray(FALSE, items), p)
    ELSE LET r == ParseRESP(b, p)
         IN  IF r.err \/ r.panic THEN r
             ELSE ParseItems(b, r.next, count - 1, Append(items, r.value))

\* ------------------------------------------------- capturing connection
\* bytes.Index(b, "\r\n") on the tokens from position `from` on: the first
\* position holding the terminator, 0 when there is none.
IndexCRLF(b, from) ==
    IF \E j \in from .. Len(b) : b[j] = CRLF
    THEN CHOOSE j \in from .. Len(b) :
            b[j] = CRLF /\ \A k \in from .. (j - 1) : b[k] # CRLF
    ELSE 0

\* the text between two positions, exclusive
RECURSIVE Between(_, _, _)
Between(b, lo, hi) ==
    IF lo + 1 >= hi THEN "" ELSE b[lo + 1] \o Between(b, lo + 1, hi)

NewCapturingConn == [lastOp |-> "", lastNull |-> TRUE, lastStr |-> "",
                     lastInt |-> 0, buffer |-> <<>>]

\* CapturingConn.Write with parseLastWrite: what one write leaves in the
\* capturing connection.
parseLastWrite(cap, b) ==
    LET end == IF IndexCRLF(b, 1) # 0 THEN IndexCRLF(b, 1) ELSE Len(b) + 1
        c0 == [cap EXCEPT !.buffer = b]
    IN  IF Len(b) = 0 THEN cap
        ELSE CASE b[1] = "+" ->
                    [c0 EXCEPT !.lastOp = "simpleString", !.lastNull = FALSE,
                               !.lastStr = Between(b, 1, end)]
               [] b[1] = "$" ->
                    IF Len(b) >= 3 /\ b[2] = "-1"
                    THEN [c0 EXCEPT !.lastOp = "nullBulkString",
                                    !.lastNull = TRUE]
                    ELSE LET idx == IndexCRLF(b, 1)
                             second == IF idx # 0 /\ idx < Len(b)
                                       THEN IndexCRLF(b, idx + 1) ELSE 0
                         IN  IF second # 0
                             THEN [c0 EXCEPT !.lastOp = "bulkString",
                                             !.lastNull = FALSE,
                                             !.lastStr = Between(b, idx, second)]
                             ELSE [c0 EXCEPT !.lastOp = "bulkString"]
               [] b[1] = ":" ->
                    [c0 EXCEPT !.lastOp = "integer", !.lastNull = FALSE,
                               !.lastInt = Atoi(Between(b, 1, end)).v]
               [] b[1] = "-" ->
                    [c0 EXCEPT !.lastOp = "error", !.lastNull = FALSE,
                               !.lastStr = Between(b, 1, end)]
               [] b[1] = "*" ->
                    IF Len(b) >= 3 /\ b[2] = "-1"
                    THEN [c0 EXCEPT !.lastOp = "nullArray", !.lastNull = TRUE]
                    ELSE IF Len(b) >= 3 /\ b[2] = "0"
                    THEN [c0 EXCEPT !.lastOp = "emptyArray",
                                    !.lastNull = FALSE]
                    ELSE [c0 EXCEPT !.lastOp = "array", !.lastNull = FALSE]
               [] OTHER -> c0

GetCapturedResponse(cap) ==
    CASE cap.lastOp = "simpleString" ->
            RespValue("SimpleString", cap.lastNull, cap.lastStr, 0)
      [] cap.lastOp = "bulkString" ->
            RespValue("BulkString", cap.lastNull, cap.lastStr, 0)
      [] cap.lastOp = "integer" ->
            RespValue("IntegerType", FALSE, "", cap.lastInt)
      [] cap.lastOp = "error" ->
            RespValue("ErrorType", cap.lastNull, cap.lastStr, 0)
      [] cap.lastOp = "nullBulkString" -> RespValue("BulkString", TRUE, "", 0)
      [] cap.lastOp = "nullArray" -> RespValue("ArrayType", TRUE, "", 0)
      [] cap.lastOp = "emptyArray" -> RespValue("ArrayType", FALSE, "", 0)
      [] cap.lastOp = "array" -> RespValue("ArrayType", FALSE, "", 0)
      [] OTHER -> RespValue("BulkString", TRUE, "", 0)

\* ------------------------------------------------------ key-value store
\* time.Now(), in milliseconds. It is declared here because the store reads it.
VARIABLE timeNow

\* The clock reading at which the runs start: one millisecond, further than
\* the window of XReadHandler.getLastEntryID above the ids the clients write
\* out.
Clock == {2000000}

\* Item.Expiry when the item has none (a nil *time.Time).
NilTime == -1

\* InMemoryKeyValueStore: kv maps each present key to its Item.
HasKey(m, key) == key \in DOMAIN m

\* Item.IsExpired
IsExpired(item) == item.Expiry # NilTime /\ timeNow > item.Expiry

\* Set(key, value, expiry...): create or overwrite; a duration that is not
\* positive, like none, leaves the item without an expiry.
StoreSetExpiry(m, key, value, expiry) ==
    (key :> [Value |-> value,
             Expiry |-> IF expiry > 0 THEN timeNow + expiry ELSE NilTime]) @@ m

StoreSet(m, key, value) == StoreSetExpiry(m, key, value, 0)

\* Get: the value and whether the key is present and has not expired
StoreGet(m, key) ==
    IF HasKey(m, key) /\ ~IsExpired(m[key])
    THEN [found |-> TRUE, v |-> m[key].Value]
    ELSE [found |-> FALSE, v |-> ""]

\* Get, asked only whether the key is there
Exists(m, key) == StoreGet(m, key).found

\* Get: the store it leaves, an expired item deleted
StoreAfterGet(m, key) ==
    IF HasKey(m, key) /\ IsExpired(m[key])
    THEN [k \in DOMAIN m \ {key} |-> m[k]]
    ELSE m

\* ------------------------------------------------------------ list store
\* DoublyLinkedList as the sequence of its values, head first; its cached
\* length is the sequence's length.
\* PushFront of the values as one block, the first value at the head.
PushFrontAll_KeepsOrder(list, values) == values \o list

RECURSIVE PushFrontAll(_, _)
PushFrontAll(list, values) ==
    IF values = <<>> THEN list
    ELSE PushFrontAll(<<Head(values)>> \o list, Tail(values))

PushBackAll(list, values) == list \o values

Without(m, key) == [k \in DOMAIN m \ {key} |-> m[k]]

ListOf(ls, key) == IF HasKey(ls, key) THEN ls[key] ELSE <<>>

\* LPush that forgets the elements the list had.
LPush_Overwrites(ls, key, values) ==
    LET list == PushFrontAll(<<>>, values)
    IN  [lists |-> (key :> list) @@ ls, length |-> Len(list)]

\* InMemoryListStore.LPush / RPush: the new map and the length replied
LPush(ls, key, values) ==
    LET list == PushFrontAll(ListOf(ls, key), values)
    IN  [lists |-> (key :> list) @@ ls, length |-> Len(list)]

RPush(ls, key, values) ==
    LET list == PushBackAll(ListOf(ls, key), values)
    IN  [lists |-> (key :> list) @@ ls, length |-> Len(list)]

Min(a, b) == IF a < b THEN a ELSE b

\* LPop that returns the head elements and leaves them in the list.
LPop_PeeksOnly(ls, key, hasCount, count) ==
    IF ~HasKey(ls, key) THEN [lists |-> ls, values |-> <<>>, exists |-> FALSE]
    ELSE LET list == ls[key]
             popCount == IF hasCount /\ count > 0 THEN count ELSE 1
             n == Min(popCount, Len(list))
         IN  IF n = 0 THEN [lists |-> ls, values |-> <<>>, exists |-> FALSE]
             ELSE [lists |-> ls, values |-> SubSeq(list, 1, n), exists |-> TRUE]

\* LPop without the delete of a list that has become empty.
LPop_KeepsEmpty(ls, key, hasCount, count) ==
    IF ~HasKey(ls, key) THEN [lists |-> ls, values |-> <<>>, exists |-> FALSE]
    ELSE LET list == ls[key]
             popCount == IF hasCount /\ count > 0 THEN count ELSE 1
             n == Min(popCount, Len(list))
         IN  IF n = 0 THEN [lists |-> ls, values |-> <<>>, exists |-> FALSE]
             ELSE [lists |-> [ls EXCEPT ![key] = SubSeq(list, n + 1, Len(list))],
                   values |-> SubSeq(list, 1, n), exists |-> TRUE]

\* InMemoryListStore.LPop(key, count...): hasCount says whether a count was
\* passed. A count that is not positive pops one element.
LPop(ls, key, hasCount, count) ==
    IF ~HasKey(ls, key) THEN [lists |-> ls, values |-> <<>>, exists |-> FALSE]
    ELSE LET list == ls[key]
             popCount == IF hasCount /\ count > 0 THEN count ELSE 1
             n == Min(popCount, Len(list))
             values == SubSeq(list, 1, n)
             rest == SubSeq(list, n + 1, Len(list))
         IN  IF n = 0 THEN [lists |-> ls, values |-> <<>>, exists |-> FALSE]
             ELSE [lists |-> IF rest = <<>> THEN Without(ls, key)
                             ELSE [ls EXCEPT ![key] = rest],
                   values |-> values, exists |-> TRUE]

\* Range that leaves out the element at position end.
Range_EndExclusive(list, start, end) ==
    LET n == Len(list)
        s1 == IF start < 0 THEN n + start ELSE start
        e1 == IF end < 0 THEN n + end ELSE end
        s2 == IF s1 < 0 THEN 0 ELSE s1
        e2 == IF e1 >= n THEN n - 1 ELSE e1
    IN  IF n = 0 THEN <<>>
        ELSE IF s2 > e2 \/ s2 >= n THEN <<>>
        ELSE SubSeq(list, s2 + 1, e2)

\* DoublyLinkedList.Range(start, end), 0-based inclusive
Range(list, start, end) ==
    LET n == Len(list)
        s1 == IF start < 0 THEN n + start ELSE start
        e1 == IF end < 0 THEN n + end ELSE end
        s2 == IF s1 < 0 THEN 0 ELSE s1
        e2 == IF e1 >= n THEN n - 1 ELSE e1
    IN  IF n = 0 THEN <<>>
        ELSE IF s2 > e2 \/ s2 >= n THEN <<>>
        ELSE SubSeq(list, s2 + 1, e2 + 1)

LRange(ls, key, start, end) ==
    IF ~HasKey(ls, key) THEN [values |-> <<>>, exists |-> FALSE]
    ELSE [values |-> Range(ls[key], start, end), exists |-> TRUE]

LLen(ls, key) ==
    IF ~HasKey(ls, key) THEN [length |-> 0, exists |-> FALSE]
    ELSE [length |-> Len(ls[key]), exists |-> TRUE]

\* ------------------------------------------- handlers that take one step
\* What Handle(parts) does to the stores and the bytes it writes.
Result(m, ls, out) == [kv |-> m, lists |-> ls, out |-> out]

\* SetHandler.Handle, its loop over the optional parameters from the one at
\* position i on: the expiry in milliseconds it ends with. A parameter
\* other than "PX" and "EX", and a number Atoi does not read, change nothing.
RECURSIVE SetExpiry(_, _, _)
SetExpiry(parts, i, expiry) ==
    IF i >= Len(parts) THEN expiry
    ELSE LET a == Atoi(parts[i + 1])
         IN  SetExpiry(parts, i + 2,
                CASE parts[i] = "PX" /\ a.ok -> a.v
                  [] parts[i] = "EX" /\ a.ok -> a.v * 1000
                  [] OTHER -> expiry)

SetHandle(parts, m, ls) ==
    IF Len(parts) < 3
    THEN Result(m, ls,
            WriteError("ERR wrong number of arguments for 'set' command"))
    ELSE Result(StoreSetExpiry(m, parts[2], parts[3], SetExpiry(parts, 4, 0)), ls,
                WriteSimpleString("OK"))

GetHandle(parts, m, ls) ==
    IF Len(parts) # 2
    THEN Result(m, ls,
            WriteError("ERR wrong number of arguments for 'get' command"))
    ELSE LET g == StoreGet(m, parts[2])
             m1 == StoreAfterGet(m, parts[2])
         IN  IF ~g.found THEN Result(m1, ls, WriteNullBulkString)
             ELSE Result(m1, ls, WriteBulkString(g.v))

\* The ids TypeHandler.hasStreamEntries looks for: "0-1" to "5-5", and the
\* sequences 0 to 4 of each of the ten timestamps currentTime - i * 1000.
typePatterns ==
    (((0 .. 5) \X (0 .. 5)) \ {<<0, 0>>})
        \cup {<<timeNow - i * 1000, seq>> : i \in 0 .. 9, seq \in 0 .. 4}

hasStreamEntries(m, key) ==
    \E p \in typePatterns : StoreGet(m, key \o ":" \o FormatID(p[1], p[2])).found

\* TypeHandler.Handle: the string store is asked first, then the list store,
\* then the stream ids; the reads are taken at one instant. Only the Get of
\* the key itself is taken to meet an expired item.
TypeHandle(parts, m, ls) ==
    IF Len(parts) # 2
    THEN Result(m, ls,
            WriteError("ERR wrong number of arguments for 'type' command"))
    ELSE LET m1 == StoreAfterGet(m, parts[2])
         IN  IF StoreGet(m, parts[2]).found
             THEN Result(m1, ls, WriteSimpleString("string"))
             ELSE IF LLen(ls, parts[2]).exists
             THEN Result(m1, ls, WriteSimpleString("list"))
             ELSE IF hasStreamEntries(m1, parts[2])
             THEN Result(m1, ls, WriteSimpleString("stream"))
             ELSE Result(m1, ls, WriteSimpleString("none"))

LPushHandle(parts, m, ls) ==
    IF Len(parts) < 3
    THEN Result(m, ls,
            WriteError("ERR wrong number of arguments for 'lpush' command"))
    ELSE LET r == LPush(ls, parts[2], SubSeq(parts, 3, Len(parts)))
         IN  Result(m, r.lists, WriteInteger(r.length))

RPushHandle(parts, m, ls) ==
    IF Len(parts) < 3
    THEN Result(m, ls,
            WriteError("ERR wrong number of arguments for 'rpush' command"))
    ELSE LET r == RPush(ls, parts[2], SubSeq(parts, 3, Len(parts)))
         IN  Result(m, r.lists, WriteInteger(r.length))

LPopHandle(parts, m, ls) ==
    IF Len(parts) < 2 \/ Len(parts) > 3
    THEN Result(m, ls,
            WriteError("ERR wrong number of arguments for 'lpop' command"))
    ELSE LET cnt == IF Len(parts) = 3 THEN Atoi(parts[3])
                    ELSE [ok |-> TRUE, v |-> 1]
         IN  IF ~cnt.ok \/ cnt.v < 0
             THEN Result(m, ls,
                    WriteError("ERR value is not an integer or out of range"))
             ELSE LET r == LPop(ls, parts[2], TRUE, cnt.v)
                  IN  IF ~r.exists
                      THEN Result(m, ls, WriteNullBulkString)
                      ELSE IF Len(parts) = 2 /\ Len(r.values) > 0
                      THEN Result(m, r.lists, WriteBulkString(r.values[1]))
                      ELSE Result(m, r.lists, WriteArray(r.values))

LRangeHandle(parts, m, ls) ==
    IF Len(parts) # 4
    THEN Result(m, ls,
            WriteError("ERR wrong number of arguments for 'lrange' command"))
    ELSE LET s == Atoi(parts[3])
             e == Atoi(parts[4])
         IN  IF ~s.ok \/ ~e.ok
             THEN Result(m, ls,
                    WriteError("ERR value is not an integer or out of range"))
             ELSE Result(m, ls, WriteArray(LRange(ls, parts[2], s.v, e.v).values))

LLenHandle(parts, m, ls) ==
    IF Len(parts) # 2
    THEN Result(m, ls,
            WriteError("ERR wrong number of arguments for 'llen' command"))
    ELSE Result(m, ls, WriteInteger(LLen(ls, parts[2]).length))

\* The handlers whose Handle is one store call followed by one write.
AtomicNames == {"SET", "GET", "TYPE", "LPUSH", "RPUSH", "LPOP", "LRANGE", "LLEN"}

HandleAtomic(parts, m, ls) ==
    CASE parts[1] = "SET" -> SetHandle(parts, m, ls)
      [] parts[1] = "GET" -> GetHandle(parts, m, ls)
      [] parts[1] = "TYPE" -> TypeHandle(parts, m, ls)
      [] parts[1] = "LPUSH" -> LPushHandle(parts, m, ls)
      [] parts[1] = "RPUSH" -> RPushHandle(parts, m, ls)
      [] parts[1] = "LPOP" -> LPopHandle(parts, m, ls)
      [] parts[1] = "LRANGE" -> LRangeHandle(parts, m, ls)
      [] parts[1] = "LLEN" -> LLenHandle(parts, m, ls)

\* ------------------------------------------------------------ the state
VARIABLES
    states,     \* TransactionManager.states: per connection, its TransactionState
    hw,         \* per handler (one object per command name), its writer field
    kv,         \* InMemoryKeyValueStore.store
    lists,      \* InMemoryListStore.lists
    sock,       \* per connection, the replies written to its socket, in order
    pc,         \* per connection, where its goroutine stands
    cur,        \* per connection, the parts of the command it read last
    nCmds,      \* per connection, how many commands it has read
    ex,         \* per connection, the locals of executeTransaction
    tmp,        \* per connection, the locals of a handler that takes several steps
    discarded,  \* history: the queued commands a DISCARD or a close dropped
    applied,    \* history: the queued commands whose handler EXEC has run
    listeners,  \* StreamNotifier: per connection, the channels its XREAD has
                \* subscribed, one per stream key; TRUE: a notification is buffered
    peerClosed, \* the connections whose client has closed its end
    wire        \* per connection, buf: the bytes its client has written that no
                \* conn.Read has returned yet; sent: history, the frames written

vars == <<states, hw, kv, lists, sock, pc, cur, nCmds, ex, tmp, discarded, applied,
          listeners, peerClosed, timeNow, wire>>

\* CreateAllHandlers: the registered command names (INFO needs a config).
HandlerNames == {"PING", "ECHO", "SET", "GET", "INCR", "TYPE", "LPUSH", "RPUSH",
                 "LPOP", "LRANGE", "LLEN", "BLPOP", "MULTI", "EXEC", "DISCARD",
                 "XADD", "XRANGE", "XREAD"}

\* What a handler's writer field points to: nothing yet, the socket of a
\* connection, or the capturing connection EXEC made for its command number i
\* while serving that connection's command number n.
NilWriter == [kind |-> "nil", owner |-> "", n |-> 0, i |-> 0]

ConnWriter(c) == [kind |-> "conn", owner |-> c, n |-> 0, i |-> 0]

CapWriter(c, n, i) == [kind |-> "cap", owner |-> c, n |-> n, i |-> i]

NoState == [exists |-> FALSE, InTransaction |-> FALSE, QueuedCommands |-> <<>>]

IdleEx == [active |-> FALSE, cmds |-> <<>>, i |-> 0, results |-> <<>>,
           wrote |-> <<>>, cap |-> NewCapturingConn]

NoTmp == [s |-> "", n |-> 0, phase |-> "", keys |-> <<>>, ids |-> <<>>,
          intValue |-> Zero64, chans |-> {}]

Init ==
    /\ states = [c \in Conns |-> NoState]
    /\ hw = [h \in HandlerNames |-> NilWriter]
    /\ kv = <<>>
    /\ lists = <<>>
    /\ sock = [c \in Conns |-> <<>>]
    /\ pc = [c \in Conns |-> "ready"]
    /\ cur = [c \in Conns |-> <<>>]
    /\ nCmds = [c \in Conns |-> 0]
    /\ ex = [c \in Conns |-> IdleEx]
    /\ tmp = [c \in Conns |-> NoTmp]
    /\ discarded = {}
    /\ applied = {}
    /\ listeners = [c \in Conns |-> <<>>]
    /\ peerClosed = {}
    /\ timeNow \in Clock
    /\ wire = [c \in Conns |-> [buf |-> "", sent |-> <<>>]]

\* A variant that only asks whether the connection has a TransactionState.
IsInTransaction_StateExists(c) == states[c].exists

\* TransactionManager.IsInTransaction
IsInTransaction(c) == states[c].exists /\ states[c].InTransaction

\* The command a connection's goroutine is running Handle for: the queued
\* command EXEC has reached, or the command it read.
CurParts(c) == IF ex[c].active THEN ex[c].cmds[ex[c].i].Parts ELSE cur[c]

\* A write of `bytes` through handler h's writer field as it is now, by the
\* goroutine of connection c, and the return of Handle to its caller: Process
\* (the goroutine reads its next command) or executeTransaction (which takes
\* the captured response, and after the last queued command writes the array).
\* A write to a connection whose client has closed reaches nobody.
\* ex[c] keeps what the last EXEC ran (cmds), what each Handle call wrote
\* (wrote) and the responses captured (results) until the next EXEC starts.
Deliver(c, h, bytes) ==
    LET t == hw[h]
        sock1 == IF t.kind = "conn" /\ t.owner \notin peerClosed
                 THEN [sock EXCEPT ![t.owner] = Append(@, bytes)]
                 ELSE sock
        ex1 == IF /\ t.kind = "cap"
                  /\ ex[t.owner].active
                  /\ pc[t.owner] # "execSet"
                  /\ t.n = nCmds[t.owner]
                  /\ t.i = ex[t.owner].i
               THEN [ex EXCEPT ![t.owner].cap = parseLastWrite(@, bytes)]
               ELSE ex
        results == Append(ex1[c].results, GetCapturedResponse(ex1[c].cap))
    IN  IF ~ex[c].active
        THEN /\ sock' = sock1
             /\ ex' = ex1
             /\ pc' = [pc EXCEPT ![c] = "ready"]
        ELSE IF ex[c].i = Len(ex[c].cmds)
        THEN /\ sock' = [sock1 EXCEPT
                            ![c] = Append(@, WriteTransactionResults(results))]
             /\ ex' = [ex1 EXCEPT ![c].results = results,
                                  ![c].wrote = Append(@, bytes),
                                  ![c].active = FALSE]
             /\ pc' = [pc EXCEPT ![c] = "ready"]
        ELSE /\ sock' = sock1
             /\ ex' = [ex1 EXCEPT ![c].results = results,
                                  ![c].wrote = Append(@, bytes),
                                  ![c].i = @ + 1]
             /\ pc' = [pc EXCEPT ![c] = "execSet"]

\* --------------------------------------------------- CommandProcessor.Process
\* The goroutine of connection c reads a command and Process starts on it.
Read(c, parts) ==
    /\ pc[c] = "ready"
    /\ c \notin peerClosed
    /\ cur' = [cur EXCEPT ![c] = parts]
    /\ nCmds' = [nCmds EXCEPT ![c] = @ + 1]

\* No handler is registered under the name.
ProcessUnknown(c, parts) ==
    /\ Read(c, parts)
    /\ parts[1] \notin HandlerNames
    /\ sock' = [sock EXCEPT ![c] = Append(@, WriteError("ERR unknown command"))]
    /\ UNCHANGED <<states, hw, kv, lists, pc, ex, tmp, discarded, applied, listeners, peerClosed, timeNow, wire>>

\* TransactionManager.StartTransaction
StartTransaction(st) ==
    [exists |-> TRUE, InTransaction |-> TRUE, QueuedCommands |-> <<>>]

\* MULTI: SetWriter, StartTransaction, reply OK.
ProcessMulti(c, parts) ==
    /\ Read(c, parts)
    /\ parts[1] = "MULTI"
    /\ hw' = [hw EXCEPT !["MULTI"] = ConnWriter(c)]
    /\ states' = [states EXCEPT ![c] = StartTransaction(@)]
    /\ sock' = [sock EXCEPT ![c] = Append(@, WriteSimpleString("OK"))]
    /\ UNCHANGED <<kv, lists, pc, ex, tmp, discarded, applied, listeners, peerClosed, timeNow, wire>>

\* TransactionManager.ExecuteTransaction: the state it leaves (the commands it
\* returns are the queue as it was).
ExecuteTransaction(st) ==
    [st EXCEPT !.InTransaction = FALSE, !.QueuedCommands = <<>>]

\* EXEC: executeTransaction up to its loop.
ProcessExec(c, parts) ==
    /\ Read(c, parts)
    /\ parts[1] = "EXEC"
    /\ hw' = [hw EXCEPT !["EXEC"] = ConnWriter(c)]
    /\ IF ~IsInTransaction(c)
       THEN /\ sock' = [sock EXCEPT
                            ![c] = Append(@, WriteError("ERR EXEC without MULTI"))]
            /\ UNCHANGED <<states, pc, ex>>
       ELSE /\ states' = [states EXCEPT ![c] = ExecuteTransaction(@)]
            /\ IF Len(states[c].QueuedCommands) = 0
               THEN /\ sock' = [sock EXCEPT ![c] = Append(@, WriteEmptyArray)]
                    /\ UNCHANGED <<pc, ex>>
               ELSE /\ ex' = [ex EXCEPT ![c] =
                                [active |-> TRUE,
                                 cmds |-> states[c].QueuedCommands,
                                 i |-> 1, results |-> <<>>, wrote |-> <<>>,
                                 cap |-> NewCapturingConn]]
                    /\ pc' = [pc EXCEPT ![c] = "execSet"]
                    /\ UNCHANGED sock
    /\ UNCHANGED <<kv, lists, tmp, discarded, applied, listeners, peerClosed, timeNow, wire>>

\* The loop body of executeTransaction up to the call of Handle: a new
\* capturing connection, and the queued handler's writer set to it.
ExecSetWriter(c) ==
    /\ pc[c] = "execSet"
    /\ LET q == ex[c].cmds[ex[c].i]
       IN  /\ hw' = [hw EXCEPT ![q.Handler] = CapWriter(c, nCmds[c], ex[c].i)]
           /\ applied' = applied \cup {q.id}
    /\ ex' = [ex EXCEPT ![c].cap = NewCapturingConn]
    /\ pc' = [pc EXCEPT ![c] = "handle"]
    /\ UNCHANGED <<states, kv, lists, sock, cur, nCmds, tmp, discarded, listeners, peerClosed, timeNow, wire>>

\* A variant that leaves the transaction without emptying the queue.
DiscardTransaction_KeepsQueue(st) == [st EXCEPT !.InTransaction = FALSE]

\* TransactionManager.DiscardTransaction: the state it leaves.
DiscardTransaction(st) ==
    [st EXCEPT !.InTransaction = FALSE, !.QueuedCommands = <<>>]

\* DISCARD: discardTransaction.
ProcessDiscard(c, parts) ==
    /\ Read(c, parts)
    /\ parts[1] = "DISCARD"
    /\ hw' = [hw EXCEPT !["DISCARD"] = ConnWriter(c)]
    /\ IF ~IsInTransaction(c)
       THEN /\ sock' = [sock EXCEPT
                          ![c] = Append(@, WriteError("ERR DISCARD without MULTI"))]
            /\ UNCHANGED <<states, discarded>>
       ELSE /\ states' = [states EXCEPT ![c] = DiscardTransaction(@)]
            /\ discarded' = discarded \cup
                    {states[c].QueuedCommands[j].id :
                        j \in 1 .. Len(states[c].QueuedCommands)}
            /\ sock' = [sock EXCEPT ![c] = Append(@, WriteSimpleString("OK"))]
    /\ UNCHANGED <<kv, lists, pc, ex, tmp, applied, listeners, peerClosed, timeNow, wire>>

\* A variant that appends nothing.
QueueCommand_Drops(st, parts, handler, id) == st

\* TransactionManager.QueueCommand: the state with the command appended
QueueCommand(st, parts, handler, id) ==
    [st EXCEPT !.QueuedCommands =
        Append(@, [Parts |-> parts, Handler |-> handler, id |-> id])]

\* Any other registered command while the connection is in a transaction.
ProcessQueue(c, parts) ==
    /\ Read(c, parts)
    /\ parts[1] \in HandlerNames \ {"MULTI", "EXEC", "DISCARD"}
    /\ IsInTransaction(c)
    /\ hw' = [hw EXCEPT ![parts[1]] = ConnWriter(c)]
    /\ states' = [states EXCEPT
            ![c] = QueueCommand(@, parts, parts[1], <<c, nCmds[c] + 1>>)]
    /\ sock' = [sock EXCEPT ![c] = Append(@, WriteSimpleString("QUEUED"))]
    /\ UNCHANGED <<kv, lists, pc, ex, tmp, discarded, applied, listeners, peerClosed, timeNow, wire>>

\* Any other registered command outside a transaction: SetWriter, then Handle.
ProcessDispatch(c, parts) ==
    /\ Read(c, parts)
    /\ parts[1] \in HandlerNames \ {"MULTI", "EXEC", "DISCARD"}
    /\ ~IsInTransaction(c)
    /\ hw' = [hw EXCEPT ![parts[1]] = ConnWriter(c)]
    /\ pc' = [pc EXCEPT ![c] = "handle"]
    /\ UNCHANGED <<states, kv, lists, sock, ex, tmp, discarded, applied, listeners, peerClosed, timeNow, wire>>

\* A variant that leaves the connection's TransactionState in the map.
CleanupConnection_Keeps(st) == st

\* TransactionManager.CleanupConnection: delete(tm.states, conn)
CleanupConnection(st) == NoState

\* The connections whose client closes in a run.
Closers == {"c1"}

\* handleConnection: the client closes (or has closed), conn.Read fails, the
\* deferred CleanupConnection and conn.Close run and the goroutine ends.
Close(c) ==
    /\ pc[c] = "ready"
    /\ peerClosed' = peerClosed \cup {c}
    /\ pc' = [pc EXCEPT ![c] = "closed"]
    /\ states' = [states EXCEPT ![c] = CleanupConnection(@)]
    /\ discarded' = discarded \cup
            {states[c].QueuedCommands[j].id :
                j \in 1 .. Len(states[c].QueuedCommands)}
    /\ UNCHANGED <<hw, kv, lists, sock, cur, nCmds, ex, tmp, applied, listeners,
                   timeNow, wire>>

\* The client closes its end while the connection's goroutine is inside a
\* handler: nothing in the server reads the connection until Handle returns.
HangUp(c) ==
    /\ pc[c] = "handle"
    /\ c \notin peerClosed
    /\ peerClosed' = peerClosed \cup {c}
    /\ UNCHANGED <<states, hw, kv, lists, sock, pc, cur, nCmds, ex, tmp,
                   discarded, applied, listeners, timeNow, wire>>

\* ------------------------------------------------------------ Handle steps
\* A handler whose Handle is one store call and one write.
HandleAtomicStep(c) ==
    /\ pc[c] = "handle"
    /\ CurParts(c)[1] \in AtomicNames
    /\ LET r == HandleAtomic(CurParts(c), kv, lists)
       IN  /\ kv' = r.kv
           /\ lists' = r.lists
           /\ Deliver(c, CurParts(c)[1], r.out)
    /\ UNCHANGED <<states, hw, cur, nCmds, tmp, discarded, applied, listeners, peerClosed, timeNow, wire>>

\* GetHandler.Handle with the two critical sections of store.Get apart. The
\* first reads the item under the read lock; an item that is missing or
\* alive is answered at once.
GetLoad(c) ==
    /\ pc[c] = "handle"
    /\ CurParts(c)[1] = "GET"
    /\ Len(CurParts(c)) = 2
    /\ LET key == CurParts(c)[2]
       IN  IF ~HasKey(kv, key)
           THEN Deliver(c, "GET", WriteNullBulkString)
           ELSE IF IsExpired(kv[key])
           THEN /\ pc' = [pc EXCEPT ![c] = "getDelete"]
                /\ UNCHANGED <<sock, ex>>
           ELSE Deliver(c, "GET", WriteBulkString(kv[key].Value))
    /\ UNCHANGED <<states, hw, kv, lists, cur, nCmds, tmp, discarded, applied,
                   listeners, peerClosed, timeNow, wire>>

\* The second, after an expired item was read: Delete(key) under the write
\* lock, whatever the key holds by then, and the null bulk.
GetDelete(c) ==
    /\ pc[c] = "getDelete"
    /\ kv' = Without(kv, CurParts(c)[2])
    /\ Deliver(c, "GET", WriteNullBulkString)
    /\ UNCHANGED <<states, hw, lists, cur, nCmds, tmp, discarded, applied,
                   listeners, peerClosed, timeNow, wire>>

\* IncrHandler.Handle up to its store.Get: the value read and parsed.
IncrGet(c) ==
    /\ pc[c] = "handle"
    /\ CurParts(c)[1] = "INCR"
    /\ LET parts == CurParts(c)
           g == StoreGet(kv, parts[2])
           a == Atoi64(g.v)
       IN  IF Len(parts) # 2
           THEN /\ Deliver(c, "INCR",
                     WriteError("ERR wrong number of arguments for 'incr' command"))
                /\ UNCHANGED <<tmp, kv>>
           ELSE IF g.found /\ ~a.ok
           THEN /\ Deliver(c, "INCR",
                     WriteError("ERR value is not an integer or out of range"))
                /\ kv' = StoreAfterGet(kv, parts[2])
                /\ UNCHANGED tmp
           ELSE /\ tmp' = [tmp EXCEPT ![c] =
                            [NoTmp EXCEPT !.intValue =
                                Inc64(IF g.found THEN a.v ELSE Zero64)]]
                /\ kv' = StoreAfterGet(kv, parts[2])
                /\ pc' = [pc EXCEPT ![c] = "incrSet"]
                /\ UNCHANGED <<sock, ex>>
    /\ UNCHANGED <<states, hw, lists, cur, nCmds, discarded, applied, listeners, peerClosed, timeNow, wire>>

\* A variant in which the store.Set waits while any EXEC is running.
IncrSet_WaitsForExec(c) ==
    /\ \A d \in Conns : ~ex[d].active \/ d = c
    /\ pc[c] = "incrSet"
    /\ kv' = StoreSet(kv, CurParts(c)[2], Itoa64(tmp[c].intValue))
    /\ Deliver(c, "INCR", WriteInteger64(tmp[c].intValue))
    /\ tmp' = [tmp EXCEPT ![c] = NoTmp]
    /\ UNCHANGED <<states, hw, lists, cur, nCmds, discarded, applied, listeners, peerClosed, timeNow, wire>>

\* IncrHandler.Handle from its store.Set on: the incremented value stored
\* and replied.
IncrSet(c) ==
    /\ pc[c] = "incrSet"
    /\ kv' = StoreSet(kv, CurParts(c)[2], Itoa64(tmp[c].intValue))
    /\ Deliver(c, "INCR", WriteInteger64(tmp[c].intValue))
    /\ tmp' = [tmp EXCEPT ![c] = NoTmp]
    /\ UNCHANGED <<states, hw, lists, cur, nCmds, discarded, applied, listeners, peerClosed, timeNow, wire>>

\* --------------------------------------------------------- BLPopHandler
\* BLPopHandler.Handle, one store.LPop at a time. tmp[c].n is the index of the
\* key the next LPop tries (0: Handle has not reached its first loop) and
\* tmp[c].phase is "block" once the immediate pass has found nothing. The
\* timeout is read as whole seconds.
BLPopScan(c) ==
    /\ pc[c] = "handle"
    /\ CurParts(c)[1] = "BLPOP"
    /\ LET parts == CurParts(c)
           n == Len(parts)
           t == Atoi(parts[n])
           keys == SubSeq(parts, 2, n - 1)
           idx == IF tmp[c].n = 0 THEN 1 ELSE tmp[c].n
           r == LPop(lists, keys[idx], FALSE, 0)
       IN  IF n < 3
           THEN /\ Deliver(c, "BLPOP",
                     WriteError("ERR wrong number of arguments for 'blpop' command"))
                /\ UNCHANGED <<lists, tmp>>
           ELSE IF ~t.ok \/ t.v < 0
           THEN /\ Deliver(c, "BLPOP",
                     WriteError("ERR timeout is not a float or out of range"))
                /\ UNCHANGED <<lists, tmp>>
           ELSE IF r.exists /\ Len(r.values) > 0
           THEN /\ lists' = r.lists
                /\ Deliver(c, "BLPOP", WriteArray(<<keys[idx], r.values[1]>>))
                /\ tmp' = [tmp EXCEPT ![c] = NoTmp]
           ELSE /\ tmp' = [tmp EXCEPT ![c] =
                            IF idx = Len(keys)
                            THEN [NoTmp EXCEPT !.n = 1, !.phase = "block"]
                            ELSE [@ EXCEPT !.n = idx + 1]]
                /\ UNCHANGED <<lists, sock, ex, pc>>
    /\ UNCHANGED <<states, hw, kv, cur, nCmds, discarded, applied, listeners, peerClosed, timeNow, wire>>

\* The deadline of a BLPOP with a positive timeout has passed when a pass
\* over the keys is about to start: the null array.
BLPopTimeout(c) ==
    /\ pc[c] = "handle"
    /\ CurParts(c)[1] = "BLPOP"
    /\ tmp[c].phase = "block" /\ tmp[c].n = 1
    /\ Atoi(CurParts(c)[Len(CurParts(c))]).v > 0
    /\ Deliver(c, "BLPOP", WriteNullArray)
    /\ tmp' = [tmp EXCEPT ![c] = NoTmp]
    /\ UNCHANGED <<states, hw, kv, lists, cur, nCmds, discarded, applied, listeners, peerClosed, timeNow, wire>>

\* ---------------------------------------------------------- XAddHandler
\* The non-negative integers strconv.ParseInt reads in the model.
StreamNums == {i \in NumRange : i >= 0} \cup Clock

\* The ids of the model, each formatted once.
StreamIDs == [p \in StreamNums \X StreamNums |-> FormatID(p[1], p[2])]

\* What each id of the model parses to, worked out once.
ParsedIDs ==
    [id \in {StreamIDs[p] : p \in DOMAIN StreamIDs} |->
        LET p == CHOOSE q \in DOMAIN StreamIDs : StreamIDs[q] = id
        IN  [ok |-> TRUE, timestamp |-> p[1], sequence |-> p[2]]]

\* XAddHandler.parseStreamID: two non-negative decimal numbers around one "-"
parseStreamID(id) ==
    IF id \in DOMAIN ParsedIDs THEN ParsedIDs[id]
    ELSE [ok |-> FALSE, timestamp |-> 0, sequence |-> 0]

\* XAddHandler.isIDGreater
isIDGreater(id1, id2) ==
    LET a == parseStreamID(id1)
        b == parseStreamID(id2)
    IN  IF ~a.ok \/ ~b.ok THEN FALSE
        ELSE \/ a.timestamp > b.timestamp
             \/ a.timestamp = b.timestamp /\ a.sequence > b.sequence

\* The ids getLastEntryID looks for: "0-1" to "5-5".
testPatterns == ((0 .. 5) \X (0 .. 5)) \ {<<0, 0>>}

\* XAddHandler.getLastEntryID: the greatest of the test patterns stored under
\* key + ":", or "" when none is.
getLastEntryID(m, key) ==
    LET found == {p \in testPatterns :
                    Exists(m, key \o ":" \o StreamIDs[p])}
    IN  IF found = {} THEN ""
        ELSE LET last == CHOOSE p \in found : \A q \in found :
                            \/ q = p
                            \/ p[1] > q[1]
                            \/ p[1] = q[1] /\ p[2] > q[2]
             IN  StreamIDs[last]

\* XAddHandler.getNextSequenceNumber: sequences 0 to 10 are looked for.
getNextSequenceNumber(m, key, timestamp) ==
    LET found == {seq \in 0 .. 10 :
                    Exists(m, key \o ":" \o StreamIDs[<<timestamp, seq>>])}
    IN  IF found # {}
        THEN (CHOOSE seq \in found : \A o \in found : o <= seq) + 1
        ELSE IF timestamp = 0 THEN 1 ELSE 0

\* strings.HasSuffix(id, "-*") and the ParseInt of what is before it, for ids
\* whose "-*" follows a decimal number.
TimestampOfPartial(id) ==
    IF \E t \in NumRange : id = Decimal[t] \o "-*"
    THEN [partial |-> TRUE,
          timestamp |-> CHOOSE t \in NumRange : id = Decimal[t] \o "-*"]
    ELSE [partial |-> FALSE, timestamp |-> 0]

XAddError(msg) == [ok |-> FALSE, id |-> "", out |-> WriteError(msg)]

\* XAddHandler.Handle up to its store.Set: the id the entry gets, or the
\* error replied. now is time.Now().UnixMilli().
XAddValidate(parts, m, now) ==
    LET key == parts[2]
        id == parts[3]
        lastEntryID == getLastEntryID(m, key)
        last == parseStreamID(lastEntryID)
        part == TimestampOfPartial(id)
    IN  IF Len(parts) < 5
        THEN XAddError("ERR wrong number of arguments for 'xadd' command")
        ELSE IF (Len(parts) - 3) % 2 # 0
        THEN XAddError("ERR wrong number of arguments for XADD")
        ELSE IF id = "*"
        THEN LET gen == FormatID(now, getNextSequenceNumber(m, key, now))
             IN  IF /\ lastEntryID # ""
                    /\ ~isIDGreater(gen, lastEntryID)
                    /\ now <= last.timestamp
                 THEN [ok |-> TRUE, out |-> <<>>,
                       id |-> FormatID(last.timestamp, last.sequence + 1)]
                 ELSE [ok |-> TRUE, id |-> gen, out |-> <<>>]
        ELSE IF part.partial
        THEN LET gen == FormatID(part.timestamp,
                            getNextSequenceNumber(m, key, part.timestamp))
             IN  IF part.timestamp < 0
                 THEN XAddError("ERR Invalid stream ID specified as stream command argument")
                 ELSE IF lastEntryID # "" /\ ~isIDGreater(gen, lastEntryID)
                 THEN XAddError("ERR The ID specified in XADD is equal or smaller than the target stream top item")
                 ELSE IF gen = "0-0"
                 THEN XAddError("ERR The ID specified in XADD must be greater than 0-0")
                 ELSE [ok |-> TRUE, id |-> gen, out |-> <<>>]
        ELSE IF ~parseStreamID(id).ok
        THEN XAddError("ERR Invalid stream ID specified as stream command argument")
        ELSE IF id = "0-0"
        THEN XAddError("ERR The ID specified in XADD must be greater than 0-0")
        ELSE IF lastEntryID # "" /\ ~isIDGreater(id, lastEntryID)
        THEN XAddError("ERR The ID specified in XADD is equal or smaller than the target stream top item")
        ELSE [ok |-> TRUE, id |-> id, out |-> <<>>]

\* XAddHandler.Handle up to its store.Set. The probes of getLastEntryID are
\* taken as one look at the store.
XAddCheck(c) ==
    /\ pc[c] = "handle"
    /\ CurParts(c)[1] = "XADD"
    /\ \E now \in {timeNow} :
        LET v == XAddValidate(CurParts(c), kv, now)
        IN  IF v.ok
            THEN /\ tmp' = [tmp EXCEPT ![c] = [NoTmp EXCEPT !.s = v.id]]
                 /\ pc' = [pc EXCEPT ![c] = "xaddSet"]
                 /\ UNCHANGED <<sock, ex>>
            ELSE /\ Deliver(c, "XADD", v.out)
                 /\ UNCHANGED tmp
    /\ UNCHANGED <<states, hw, kv, lists, cur, nCmds, discarded, applied, listeners, peerClosed, timeNow, wire>>

\* XAddHandler.Handle, its store.Set: the entry stored under key + ":" + id
\* (one field-value pair, "field:value").
XAddSet(c) ==
    /\ pc[c] = "xaddSet"
    /\ LET parts == CurParts(c)
       IN  kv' = StoreSet(kv, parts[2] \o ":" \o tmp[c].s,
                          parts[4] \o ":" \o parts[5])
    /\ pc' = [pc EXCEPT ![c] = "xaddNotify"]
    /\ UNCHANGED <<states, hw, lists, sock, cur, nCmds, ex, tmp, discarded,
                   applied, listeners, peerClosed, timeNow, wire>>

\* StreamNotifier.Notify: every channel subscribed to the key gets a
\* notification unless it has one buffered.
Notify(ls, streamKey, keysOf) ==
    [c \in Conns |->
        [i \in 1 .. Len(ls[c]) |-> ls[c][i] \/ keysOf[c][i] = streamKey]]

\* XAddHandler.Handle after its store.Set: Notify, and the id replied.
XAddNotify(c) ==
    /\ pc[c] = "xaddNotify"
    /\ listeners' = Notify(listeners, CurParts(c)[2],
                           [d \in Conns |-> tmp[d].keys])
    /\ Deliver(c, "XADD", WriteBulkString(tmp[c].s))
    /\ tmp' = [tmp EXCEPT ![c] = NoTmp]
    /\ UNCHANGED <<states, hw, kv, lists, cur, nCmds, discarded, applied, peerClosed, timeNow, wire>>

\* StreamNotifier.Notify with its two parts apart. A channel is named by the
\* connection whose XREAD made it, the number of that command and the place
\* of its key. The first part, under the read lock, takes the slice of the
\* channels subscribed to the key.
Channels(ls, streamKey, keysOf) ==
    {ch \in Conns \X (0 .. MaxCmds) \X (1 .. 2) :
        /\ ch[2] = nCmds[ch[1]]
        /\ ch[3] <= Len(ls[ch[1]])
        /\ keysOf[ch[1]][ch[3]] = streamKey}

\* The channel is subscribed: Unsubscribe has not closed it.
IsOpen(ls, ch) == ch[2] = nCmds[ch[1]] /\ ch[3] <= Len(ls[ch[1]])

\* No goroutine has panicked: the process runs.
Running == \A c \in Conns : pc[c] # "panic"

NotifyLoad(c) ==
    /\ Running
    /\ pc[c] = "xaddNotify"
    /\ tmp' = [tmp EXCEPT ![c].chans =
                    Channels(listeners, CurParts(c)[2], [d \in Conns |-> tmp[d].keys])]
    /\ pc' = [pc EXCEPT ![c] = "xaddSend"]
    /\ UNCHANGED <<states, hw, kv, lists, sock, cur, nCmds, ex, discarded, applied,
                   listeners, peerClosed, timeNow, wire>>

\* The second part, with no lock held: a send to each channel of the slice
\* that has no notification buffered. A send to a channel that Unsubscribe
\* has closed meanwhile panics, and so ends the process. Then XAddHandler
\* replies the id.
NotifySend(c) ==
    /\ Running
    /\ pc[c] = "xaddSend"
    /\ IF \A ch \in tmp[c].chans : IsOpen(listeners, ch)
       THEN /\ listeners' =
                    [d \in Conns |->
                        [i \in 1 .. Len(listeners[d]) |->
                            listeners[d][i] \/ <<d, nCmds[d], i>> \in tmp[c].chans]]
            /\ Deliver(c, "XADD", WriteBulkString(tmp[c].s))
            /\ tmp' = [tmp EXCEPT ![c] = NoTmp]
       ELSE /\ pc' = [pc EXCEPT ![c] = "panic"]
            /\ UNCHANGED <<listeners, sock, ex, tmp>>
    /\ UNCHANGED <<states, hw, kv, lists, cur, nCmds, discarded, applied, peerClosed,
                   timeNow, wire>>

\* ------------------------------------------------ Server.handleConnection
\* buf := make([]byte, 1024)
BufSize == 1024

\* The bytes of a command as a client writes it: an array of bulk strings.
Frame(parts) == Bytes(WriteArray(parts))

\* The client of connection c writes a frame; its bytes wait in the socket.
ClientWrite(c, frame) ==
    /\ Running
    /\ c \notin peerClosed
    /\ wire' = [wire EXCEPT ![c].buf = @ \o frame, ![c].sent = Append(@, frame)]
    /\ UNCHANGED <<states, hw, kv, lists, sock, pc, cur, nCmds, ex, tmp, discarded,
                   applied, listeners, peerClosed, timeNow>>

\* Process: the value is a command when it is an array that is not nil and
\* not empty and whose first item holds a string.
IsCommand(v) ==
    /\ v.Type = "ArrayType"
    /\ ~v.Null
    /\ v.Items # <<>>
    /\ v.Items[1].Type \in {"SimpleString", "ErrorType", "BulkString"}
    /\ ~v.Items[1].Null

CommandParts(v) == [i \in 1 .. Len(v.Items) |-> v.Items[i].Str]

\* One turn of the loop of handleConnection, for a command outside a
\* transaction: conn.Read returns the bytes that wait, BufSize at most (size
\* is what has arrived by then); ParseRESP reads one value from them in a
\* reader of its own, and what it leaves unread goes with the reader. An
\* error is replied to; a value goes to Process, which replies the same
\* error unless the value is a command with a registered name, and
\* otherwise sets the handler's writer and calls Handle.
ReadStep(c) ==
    /\ Running
    /\ pc[c] = "ready"
    /\ c \notin peerClosed
    /\ ~IsInTransaction(c)
    /\ wire[c].buf # ""
    /\ \E size \in {Chunk, BufSize} :
          LET n == Min(Min(size, BufSize), Len(wire[c].buf))
              request == SubSeq(wire[c].buf, 1, n)
              r == ParseRESP(request, 1)
          IN  /\ wire' = [wire EXCEPT ![c].buf = SubSeq(@, n + 1, Len(@))]
              /\ IF r.panic
                 THEN /\ pc' = [pc EXCEPT ![c] = "panic"]
                      /\ UNCHANGED <<sock, hw, cur, nCmds>>
                 ELSE IF r.err \/ ~IsCommand(r.value)
                 THEN /\ sock' = [sock EXCEPT
                                ![c] = Append(@, WriteError("ERR unknown command"))]
                      /\ UNCHANGED <<pc, hw, cur, nCmds>>
                 ELSE /\ cur' = [cur EXCEPT ![c] = CommandParts(r.value)]
                      /\ nCmds' = [nCmds EXCEPT ![c] = @ + 1]
                      /\ IF CommandParts(r.value)[1] \notin
                                HandlerNames \ {"MULTI", "EXEC", "DISCARD"}
                         THEN /\ sock' = [sock EXCEPT
                                    ![c] = Append(@, WriteError("ERR unknown command"))]
                              /\ UNCHANGED <<pc, hw>>
                         ELSE /\ hw' = [hw EXCEPT
                                    ![CommandParts(r.value)[1]] = ConnWriter(c)]
                              /\ pc' = [pc EXCEPT ![c] = "handle"]
                              /\ UNCHANGED sock
    /\ UNCHANGED <<states, kv, lists, ex, tmp, discarded, applied, listeners,
                   peerClosed, timeNow>>

\* PingHandler.Handle
PingStep(c) ==
    /\ Running
    /\ pc[c] = "handle"
    /\ CurParts(c)[1] = "PING"
    /\ Deliver(c, "PING",
            IF Len(CurParts(c)) = 1 THEN WriteSimpleString("PONG")
            ELSE IF Len(CurParts(c)) = 2 THEN WriteSimpleString(CurParts(c)[2])
            ELSE WriteError("ERR wrong number of arguments for 'ping' command"))
    /\ UNCHANGED <<states, hw, kv, lists, cur, nCmds, tmp, discarded, applied,
                   listeners, peerClosed, timeNow, wire>>

\* --------------------------------------------------------- XReadHandler
\* XReadHandler.isIDAfter: id is strictly greater than startID.
isIDAfter(id, startID) ==
    LET a == parseStreamID(id)
        b == parseStreamID(startID)
    IN  IF ~a.ok \/ ~b.ok THEN FALSE
        ELSE \/ a.timestamp > b.timestamp
             \/ a.timestamp = b.timestamp /\ a.sequence > b.sequence

\* The ids getEntriesAfterID looks for, in its order: "0-1" to "5-5"
\* without "4-2".
readPatterns ==
    LET all == [i \in 1 .. 35 |-> <<i \div 6, i % 6>>]
    IN  SubSeq(all, 1, 25) \o SubSeq(all, 27, 35)

\* The field names and values of the entries the clients add.
FieldNames == {"a"}

FieldValues == {"1"}

\* The fields of a stored entry: strings.Split at "," and SplitN at ":" of
\* the one pair an entry of the runs holds.
ParseFields(entryStr) ==
    LET pairs == {p \in FieldNames \X FieldValues : p[1] \o ":" \o p[2] = entryStr}
    IN  IF pairs = {} THEN <<>> ELSE <<CHOOSE p \in pairs : TRUE>>

\* XReadHandler.getEntriesAfterID: the entries stored under key + ":" + a
\* pattern that is after startID, in the order of the patterns.
RECURSIVE EntriesOf(_, _, _, _)
EntriesOf(m, key, startID, patterns) ==
    IF patterns = <<>> THEN <<>>
    ELSE LET pattern == StreamIDs[Head(patterns)]
             rest == EntriesOf(m, key, startID, Tail(patterns))
         IN  IF Exists(m, key \o ":" \o pattern) /\ isIDAfter(pattern, startID)
             THEN <<[ID |-> pattern,
                     Fields |-> ParseFields(StoreGet(m, key \o ":" \o pattern).v)]>>
                  \o rest
             ELSE rest

getEntriesAfterID(m, key, startID) == EntriesOf(m, key, startID, readPatterns)

\* XReadHandler.getLastEntryID: the greatest stored id among those with a
\* timestamp from now - 1000000 to now + 1000 and a sequence up to 5 and the
\* test patterns "0-1" to "5-5"; "" when none is stored.
XReadGetLastEntryID(m, key, now) ==
    LET looked == {p \in StreamNums \X (0 .. 5) :
                     \/ p[1] >= now - 1000000 /\ p[1] <= now + 1000
                     \/ p \in testPatterns}
        found == {p \in looked : Exists(m, key \o ":" \o StreamIDs[p])}
    IN  IF found = {} THEN ""
        ELSE LET last == CHOOSE p \in found : \A q \in found :
                            \/ q = p
                            \/ p[1] > q[1]
                            \/ p[1] = q[1] /\ p[2] > q[2]
             IN  StreamIDs[last]

\* ResponseWriter.WriteStreamResults
RECURSIVE ConcatFields(_)
ConcatFields(fields) ==
    IF fields = <<>> THEN <<>>
    ELSE formatBulkString(Head(fields)[1]) \o formatBulkString(Head(fields)[2])
         \o ConcatFields(Tail(fields))

RECURSIVE ConcatEntries(_)
ConcatEntries(entries) ==
    IF entries = <<>> THEN <<>>
    ELSE <<"*", "2", CRLF>> \o formatBulkString(Head(entries).ID)
         \o formatArrayHeader(Len(Head(entries).Fields) * 2)
         \o ConcatFields(Head(entries).Fields)
         \o ConcatEntries(Tail(entries))

RECURSIVE ConcatResults(_)
ConcatResults(results) ==
    IF results = <<>> THEN <<>>
    ELSE <<"*", "2", CRLF>> \o formatBulkString(Head(results).Key)
         \o formatArrayHeader(Len(Head(results).Entries))
         \o ConcatEntries(Head(results).Entries)
         \o ConcatResults(Tail(results))

WriteStreamResults(results) ==
    formatArrayHeader(Len(results)) \o ConcatResults(results)

\* The loop over streamKeys of Handle and handleBlockingRead: one result for
\* each key that has entries after its start id.
RECURSIVE ReadStreams(_, _, _)
ReadStreams(m, streamKeys, streamIDs) ==
    IF streamKeys = <<>> THEN <<>>
    ELSE LET entries == getEntriesAfterID(m, Head(streamKeys), Head(streamIDs))
             rest == ReadStreams(m, Tail(streamKeys), Tail(streamIDs))
         IN  IF Len(entries) > 0
             THEN <<[Key |-> Head(streamKeys), Entries |-> entries]>> \o rest
             ELSE rest

XReadError(msg) ==
    [ok |-> FALSE, out |-> WriteError(msg), block |-> -1, keys |-> <<>>, ids |-> <<>>]

\* XReadHandler.Handle up to the reading: the BLOCK timeout (-1: none), the
\* stream keys and the start ids, "$" replaced by the stream's last id as
\* getLastEntryID finds it, or the error replied.
XReadParse(parts, m, now) ==
    LET n == Len(parts)
        hasBlock == parts[2] = "BLOCK"
        timeout == Atoi(parts[3])
        argIndex == IF hasBlock THEN 4 ELSE 2
        at == {i \in argIndex .. n : parts[i] = "STREAMS"}
        streamsIndex == CHOOSE i \in at : \A j \in at : i <= j
        streamArgs == SubSeq(parts, streamsIndex + 1, n)
        numStreams == Len(streamArgs) \div 2
        resolve(i) ==
            LET key == streamArgs[i]
                id == streamArgs[i + numStreams]
                maxID == XReadGetLastEntryID(m, key, now)
            IN  IF id = "$" THEN (IF maxID = "" THEN "0-0" ELSE maxID) ELSE id
    IN  IF n < 4
        THEN XReadError("ERR wrong number of arguments for 'xread' command")
        ELSE IF hasBlock /\ (~timeout.ok \/ timeout.v < 0)
        THEN XReadError("ERR timeout is not an integer or out of range")
        ELSE IF at = {}
        THEN XReadError("ERR syntax error")
        ELSE IF Len(streamArgs) % 2 # 0
        THEN XReadError("ERR Unbalanced XREAD list of streams: for each stream key an ID or '$' must be specified.")
        ELSE [ok |-> TRUE, out |-> <<>>,
              block |-> IF hasBlock THEN timeout.v ELSE -1,
              keys |-> SubSeq(streamArgs, 1, numStreams),
              ids |-> [i \in 1 .. numStreams |-> resolve(i)]]

InXRead(c) == pc[c] = "handle" /\ CurParts(c)[1] = "XREAD"

\* Handle from its start to the call of handleBlockingRead or to the
\* non-blocking read. The probes of getLastEntryID are taken as one look at
\* the store.
XReadStart(c) ==
    /\ InXRead(c)
    /\ tmp[c].phase = ""
    /\ \E now \in {timeNow} :
        LET r == XReadParse(CurParts(c), kv, now)
        IN  IF r.ok
            THEN /\ tmp' = [tmp EXCEPT ![c] =
                             [NoTmp EXCEPT !.n = r.block, !.keys = r.keys,
                                           !.ids = r.ids,
                                           !.phase = IF r.block >= 0
                                                     THEN "subscribe" ELSE "read"]]
                 /\ UNCHANGED <<sock, ex, pc>>
            ELSE /\ Deliver(c, "XREAD", r.out)
                 /\ UNCHANGED tmp
    /\ UNCHANGED <<states, hw, kv, lists, cur, nCmds, discarded, applied,
                   listeners, peerClosed, timeNow, wire>>

\* Handle, the non-blocking read: the null array when no stream has entries.
XReadNow(c) ==
    /\ InXRead(c)
    /\ tmp[c].phase = "read"
    /\ LET result == ReadStreams(kv, tmp[c].keys, tmp[c].ids)
       IN  Deliver(c, "XREAD", IF Len(result) = 0 THEN WriteNullArray
                               ELSE WriteStreamResults(result))
    /\ tmp' = [tmp EXCEPT ![c] = NoTmp]
    /\ UNCHANGED <<states, hw, kv, lists, cur, nCmds, discarded, applied,
                   listeners, peerClosed, timeNow, wire>>

\* StreamNotifier.Subscribe for each stream key: a channel of capacity 1,
\* empty. listeners[c][i] tells whether the channel the XREAD of connection c
\* holds for its i-th key has a notification.
Subscribe(streamKeys) == [i \in 1 .. Len(streamKeys) |-> FALSE]

XReadSubscribe(c) ==
    /\ InXRead(c)
    /\ tmp[c].phase = "subscribe"
    /\ listeners' = [listeners EXCEPT ![c] = Subscribe(tmp[c].keys)]
    /\ tmp' = [tmp EXCEPT ![c].phase = "first"]
    /\ UNCHANGED <<states, hw, kv, lists, sock, pc, cur, nCmds, ex, discarded,
                   applied, peerClosed, timeNow, wire>>

\* StreamNotifier.Unsubscribe for each stream key, deferred to the return of
\* handleBlockingRead: the connection's channels leave the listeners.
Unsubscribe(ls, c) == [ls EXCEPT ![c] = <<>>]

\* handleBlockingRead, the check for existing entries: replied at once when
\* there are any.
XReadFirst(c) ==
    /\ InXRead(c)
    /\ tmp[c].phase = "first"
    /\ LET result == ReadStreams(kv, tmp[c].keys, tmp[c].ids)
       IN  IF Len(result) > 0
           THEN /\ Deliver(c, "XREAD", WriteStreamResults(result))
                /\ listeners' = Unsubscribe(listeners, c)
                /\ tmp' = [tmp EXCEPT ![c] = NoTmp]
           ELSE /\ tmp' = [tmp EXCEPT ![c].phase = "wait"]
                /\ UNCHANGED <<sock, ex, pc, listeners>>
    /\ UNCHANGED <<states, hw, kv, lists, cur, nCmds, discarded, applied, peerClosed, timeNow, wire>>

\* handleBlockingRead, a pass of its loop that finds a notification: every
\* channel is emptied. (A pass that finds none sleeps 10 ms and changes
\* nothing.)
XReadDrain(c) ==
    /\ InXRead(c)
    /\ tmp[c].phase = "wait"
    /\ \E i \in 1 .. Len(listeners[c]) : listeners[c][i]
    /\ listeners' = [listeners EXCEPT ![c] = Subscribe(tmp[c].keys)]
    /\ tmp' = [tmp EXCEPT ![c].phase = "notified"]
    /\ UNCHANGED <<states, hw, kv, lists, sock, pc, cur, nCmds, ex, discarded,
                   applied, peerClosed, timeNow, wire>>

\* handleBlockingRead, the check for new entries after a notification:
\* replied when there are any, otherwise the loop goes on.
XReadCheck(c) ==
    /\ InXRead(c)
    /\ tmp[c].phase = "notified"
    /\ LET result == ReadStreams(kv, tmp[c].keys, tmp[c].ids)
       IN  IF Len(result) > 0
           THEN /\ Deliver(c, "XREAD", WriteStreamResults(result))
                /\ listeners' = Unsubscribe(listeners, c)
                /\ tmp' = [tmp EXCEPT ![c] = NoTmp]
           ELSE /\ tmp' = [tmp EXCEPT ![c].phase = "wait"]
                /\ UNCHANGED <<sock, ex, pc, listeners>>
    /\ UNCHANGED <<states, hw, kv, lists, cur, nCmds, discarded, applied, peerClosed, timeNow, wire>>

\* handleBlockingRead with a positive timeout, the timeout has passed when a
\* pass of the loop starts or ends: the null array.
XReadTimeout(c) ==
    /\ InXRead(c)
    /\ tmp[c].phase \in {"wait", "notified"}
    /\ tmp[c].n > 0
    /\ Deliver(c, "XREAD", WriteNullArray)
    /\ listeners' = Unsubscribe(listeners, c)
    /\ tmp' = [tmp EXCEPT ![c] = NoTmp]
    /\ UNCHANGED <<states, hw, kv, lists, cur, nCmds, discarded, applied, peerClosed, timeNow, wire>>

\* -------------------------------------------------------- XRangeHandler
\* XRangeHandler.isIDInRange: startID <= id <= endID, "-" the least id and
\* "+" no upper end.
isIDInRange(id, startID, endID) ==
    LET a == parseStreamID(id)
        b == parseStreamID(IF startID = "-" THEN "0-0" ELSE startID)
        e == parseStreamID(endID)
        notBelow == \/ a.timestamp > b.timestamp
                    \/ a.timestamp = b.timestamp /\ a.sequence >= b.sequence
    IN  IF endID = "+" THEN a.ok /\ b.ok /\ notBelow
        ELSE /\ a.ok /\ b.ok /\ e.ok
             /\ notBelow
             /\ ~ \/ a.timestamp > e.timestamp
                  \/ a.timestamp = e.timestamp /\ a.sequence > e.sequence

\* The ids getEntriesInRange looks for, in its order: "0-1" to "5-5".
rangePatterns == [i \in 1 .. 35 |-> <<i \div 6, i % 6>>]

\* XRangeHandler.getEntriesInRange: the entries stored under key + ":" + a
\* pattern in the range, in the order of the patterns, up to count of them
\* when count is positive.
RECURSIVE EntriesInRange(_, _, _, _, _, _, _)
EntriesInRange(m, key, startID, endID, count, patterns, entries) ==
    IF patterns = <<>> THEN entries
    ELSE LET pattern == StreamIDs[Head(patterns)]
             g == StoreGet(m, key \o ":" \o pattern)
             more == Append(entries, [ID |-> pattern, Fields |-> ParseFields(g.v)])
         IN  IF isIDInRange(pattern, startID, endID) /\ g.found
             THEN IF count > 0 /\ Len(more) >= count THEN more
                  ELSE EntriesInRange(m, key, startID, endID, count,
                                      Tail(patterns), more)
             ELSE EntriesInRange(m, key, startID, endID, count,
                                 Tail(patterns), entries)

getEntriesInRange(m, key, startID, endID, count) ==
    EntriesInRange(m, key, startID, endID, count, rangePatterns, <<>>)

\* ResponseWriter.WriteStreamEntries
WriteStreamEntries(entries) ==
    formatArrayHeader(Len(entries)) \o ConcatEntries(entries)

\* XRangeHandler.Handle: the bytes it writes. Its reads of the store are
\* taken at one instant.
XRangeHandle(parts, m) ==
    LET cnt == IF Len(parts) = 6 THEN Atoi(parts[6]) ELSE [ok |-> TRUE, v |-> -1]
        entries == getEntriesInRange(m, parts[2], parts[3], parts[4], cnt.v)
    IN  IF Len(parts) < 4 \/ Len(parts) > 6
        THEN WriteError("ERR wrong number of arguments for 'xrange' command")
        ELSE IF Len(parts) = 6 /\ parts[5] # "COUNT"
        THEN WriteError("ERR syntax error")
        ELSE IF Len(parts) = 6 /\ (~cnt.ok \/ cnt.v <= 0)
        THEN WriteError("ERR value is not an integer or out of range")
        ELSE IF Len(entries) = 0 THEN WriteEmptyArray
        ELSE WriteStreamEntries(entries)

XRangeStep(c) ==
    /\ pc[c] = "handle"
    /\ CurParts(c)[1] = "XRANGE"
    /\ Deliver(c, "XRANGE", XRangeHandle(CurParts(c), kv))
    /\ UNCHANGED <<states, hw, kv, lists, cur, nCmds, tmp, discarded, applied,
                   listeners, peerClosed, timeNow, wire>>

\* ------------------------------------------------- transactions: the runs
\* The commands connection c1 sends: the transaction commands, a write and
\* an increment of a string key, a read of a list key, and a name no handler
\* is registered under.
TxCmds == {<<"MULTI">>, <<"EXEC">>, <<"DISCARD">>,
           <<"SET", "k", "x">>, <<"INCR", "k">>,
           <<"LRANGE", "L", "0", "-1">>, <<"FOO">>}

\* The commands connection c2 sends meanwhile.
OtherCmds == {<<"INCR", "k">>}

Cmds(c) == IF c = "c1" THEN TxCmds ELSE IF c = "c2" THEN OtherCmds ELSE {}

Budget(c) == IF c = "c1" THEN MaxCmds ELSE IF c = "c2" THEN MaxOther ELSE 0

Next ==
    \/ \E c \in Conns : \E parts \in Cmds(c) :
          nCmds[c] < Budget(c) /\ ProcessUnknown(c, parts)
    \/ \E c \in Conns : \E parts \in Cmds(c) :
          nCmds[c] < Budget(c) /\ ProcessMulti(c, parts)
    \/ \E c \in Conns : \E parts \in Cmds(c) :
          nCmds[c] < Budget(c) /\ ProcessExec(c, parts)
    \/ \E c \in Conns : \E parts \in Cmds(c) :
          nCmds[c] < Budget(c) /\ ProcessDiscard(c, parts)
    \/ \E c \in Conns : \E parts \in Cmds(c) :
          nCmds[c] < Budget(c) /\ ProcessQueue(c, parts)
    \/ \E c \in Conns : \E parts \in Cmds(c) :
          nCmds[c] < Budget(c) /\ ProcessDispatch(c, parts)
    \/ \E c \in Conns : ExecSetWriter(c)
    \/ \E c \in Conns : HandleAtomicStep(c)
    \/ \E c \in Conns : IncrGet(c)
    \/ \E c \in Conns : IncrSet(c)

Spec == Init /\ [][Next]_vars

\* The runs in which the client of the first connection closes it: the
\* transaction commands and two writes, the second connection incrementing
\* meanwhile.
CloseCmds(c) ==
    IF c = "c1" THEN {<<"MULTI">>, <<"EXEC">>, <<"DISCARD">>,
                      <<"SET", "k", "x">>, <<"INCR", "k">>}
    ELSE IF c = "c2" THEN OtherCmds
    ELSE {}

NextClose ==
    \/ \E c \in Conns : \E parts \in CloseCmds(c) :
          nCmds[c] < Budget(c) /\ ProcessMulti(c, parts)
    \/ \E c \in Conns : \E parts \in CloseCmds(c) :
          nCmds[c] < Budget(c) /\ ProcessExec(c, parts)
    \/ \E c \in Conns : \E parts \in CloseCmds(c) :
          nCmds[c] < Budget(c) /\ ProcessDiscard(c, parts)
    \/ \E c \in Conns : \E parts \in CloseCmds(c) :
          nCmds[c] < Budget(c) /\ ProcessQueue(c, parts)
    \/ \E c \in Conns : \E parts \in CloseCmds(c) :
          nCmds[c] < Budget(c) /\ ProcessDispatch(c, parts)
    \/ \E c \in Conns : ExecSetWriter(c)
    \/ \E c \in Conns : HandleAtomicStep(c)
    \/ \E c \in Conns : IncrGet(c)
    \/ \E c \in Conns : IncrSet(c)
    \/ \E c \in Closers : Close(c)

SpecClose == Init /\ [][NextClose]_vars

\* --------------------------------------------------------- one key: the runs
\* The first connection writes key k as a string and as a list, pops, and
\* asks for its length, elements and type; the second pushes to k and pops
\* from it, also blocking.
KeyCmds(c) ==
    IF c = "c1"
    THEN {<<"SET", "k", "x">>, <<"RPUSH", "k", "a", "b">>, <<"LPUSH", "k", "c", "d">>,
          <<"LPOP", "k">>, <<"LPOP", "k", "0">>, <<"LPOP", "k", "3">>,
          <<"LLEN", "k">>, <<"LRANGE", "k", "0", "-1">>, <<"TYPE", "k">>,
          <<"BLPOP", "k", "1">>}
    ELSE IF c = "c2" THEN {<<"RPUSH", "k", "e">>, <<"BLPOP", "k", "1">>}
    ELSE {}

KeyBudget(c) == IF c = "c1" THEN MaxKeyCmds ELSE IF c = "c2" THEN MaxOther ELSE 0

NextKeys ==
    \/ \E c \in Conns : \E parts \in KeyCmds(c) :
          nCmds[c] < KeyBudget(c) /\ ProcessDispatch(c, parts)
    \/ \E c \in Conns : HandleAtomicStep(c)
    \/ \E c \in Conns : BLPopScan(c)
    \/ \E c \in Conns : BLPopTimeout(c)

SpecKeys == Init /\ [][NextKeys]_vars

\* ------------------------------------------------------ expiry: the runs
\* The clock advances by a millisecond or by a second, MaxTicks times at most.
Tick ==
    /\ \E ms \in 0 .. MaxTicks, sec \in 0 .. MaxTicks, start \in Clock :
            /\ ms + sec < MaxTicks
            /\ timeNow = start + ms + 1000 * sec
            /\ timeNow' \in {timeNow + 1, timeNow + 1000}
    /\ UNCHANGED <<states, hw, kv, lists, sock, pc, cur, nCmds, ex, tmp, discarded,
                   applied, listeners, peerClosed, wire>>

\* The first connection sets k with an expiry in milliseconds or in seconds,
\* with an expiry of zero, and without one; the second reads k.
ExpiryCmds(c) ==
    IF c = "c1"
    THEN {<<"SET", "k", "v", "PX", "2">>, <<"SET", "k", "v", "EX", "1">>,
          <<"SET", "k", "v", "PX", "0">>, <<"SET", "k", "w">>}
    ELSE IF c = "c2" THEN {<<"GET", "k">>}
    ELSE {}

ExpiryBudget(c) == IF c = "c1" THEN MaxSets ELSE IF c = "c2" THEN MaxGets ELSE 0

NextExpiry ==
    \/ \E c \in Conns : \E parts \in ExpiryCmds(c) :
          nCmds[c] < ExpiryBudget(c) /\ ProcessDispatch(c, parts)
    \/ \E c \in Conns : HandleAtomicStep(c)
    \/ Tick

SpecExpiry == Init /\ [][NextExpiry]_vars

\* The first connection sets k with an expiry and then without one, while
\* the second reads k and the clock advances.
LazyCmds(c) ==
    IF c = "c1" THEN {<<"SET", "k", "v", "PX", "1">>, <<"SET", "k", "w">>}
    ELSE IF c = "c2" THEN {<<"GET", "k">>}
    ELSE {}

\* SetHandler.Handle: one store.Set under the write lock.
SetStep(c) == pc[c] = "handle" /\ CurParts(c)[1] = "SET" /\ HandleAtomicStep(c)

NextLazy ==
    \/ \E c \in Conns : \E parts \in LazyCmds(c) :
          nCmds[c] < ExpiryBudget(c) /\ ProcessDispatch(c, parts)
    \/ \E c \in Conns : SetStep(c)
    \/ \E c \in Conns : GetLoad(c)
    \/ \E c \in Conns : GetDelete(c)
    \/ Tick

SpecLazy == Init /\ [][NextLazy]_vars

\* -------------------------------------------------------- INCR: the runs
\* One connection sets k to the greatest int, to integers and to a value
\* that is no integer, increments k and reads it; no other connection sends
\* anything.
MaxInt64 == "9223372036854775807"

IncrCmds(c) ==
    IF c = "c1"
    THEN {<<"SET", "k", MaxInt64>>, <<"SET", "k", "x">>, <<"SET", "k", "99">>,
          <<"SET", "k", "-1">>, <<"INCR", "k">>, <<"GET", "k">>}
    ELSE {}

NextIncr ==
    \/ \E c \in Conns : \E parts \in IncrCmds(c) :
          nCmds[c] < MaxIncrCmds /\ ProcessDispatch(c, parts)
    \/ \E c \in Conns : HandleAtomicStep(c)
    \/ \E c \in Conns : IncrGet(c)
    \/ \E c \in Conns : IncrSet(c)

SpecIncr == Init /\ [][NextIncr]_vars

\* ------------------------------------------------------ LRANGE: the runs
\* The first connection pushes to k and pops from it; the second asks for
\* ranges of k, with indices before, in and after the list, from either end.
RangeIdx == -4 .. 4

RangeCmds(c) ==
    IF c = "c1"
    THEN {<<"RPUSH", "k", "a", "b">>, <<"RPUSH", "k", "c">>, <<"LPOP", "k">>}
    ELSE IF c = "c2"
    THEN {<<"LRANGE", "k", Itoa(s), Itoa(e)>> : s \in RangeIdx, e \in RangeIdx}
    ELSE {}

RangeBudget(c) == IF c = "c1" THEN MaxPush ELSE IF c = "c2" THEN MaxRanges ELSE 0

NextRange ==
    \/ \E c \in Conns : \E parts \in RangeCmds(c) :
          nCmds[c] < RangeBudget(c) /\ ProcessDispatch(c, parts)
    \/ \E c \in Conns : HandleAtomicStep(c)

SpecRange == Init /\ [][NextRange]_vars

\* ------------------------------------------------------- lists: the runs
\* Two connections block on list q, the first also with a timeout, the
\* second also on another list, and a third pushes to q.
ListCmds(c) ==
    IF c = "c1" THEN {<<"BLPOP", "q", "0">>, <<"BLPOP", "q", "1">>}
    ELSE IF c = "c2" THEN {<<"BLPOP", "q", "0">>, <<"BLPOP", "p", "0">>}
    ELSE {<<"RPUSH", "q", "x">>, <<"RPUSH", "q", "y">>}

ListBudget(c) == IF c = "c3" THEN MaxPush ELSE MaxBlock

NextList ==
    \/ \E c \in Conns : \E parts \in ListCmds(c) :
          nCmds[c] < ListBudget(c) /\ ProcessDispatch(c, parts)
    \/ \E c \in Conns : HandleAtomicStep(c)
    \/ \E c \in Conns : BLPopScan(c)
    \/ \E c \in Conns : BLPopTimeout(c)

SpecList == Init /\ [][NextList]_vars

\* The goroutines are scheduled: a handler that can take its next step takes
\* it (BLPOP polls again every 10 ms).
SpecListFair ==
    /\ SpecList
    /\ \A c \in Conns : WF_vars(BLPopScan(c))
    /\ \A c \in Conns : WF_vars(BLPopTimeout(c))
    /\ \A c \in Conns : WF_vars(HandleAtomicStep(c))

\* The first connection blocks on two lists or with a timeout and its client
\* may close at any moment; the second blocks on one list; the third pushes
\* to both lists.
ListCloseCmds(c) ==
    IF c = "c1" THEN {<<"BLPOP", "q", "p", "0">>, <<"BLPOP", "q", "1">>}
    ELSE IF c = "c2" THEN {<<"BLPOP", "q", "0">>}
    ELSE {<<"RPUSH", "q", "x">>, <<"RPUSH", "p", "y">>}

NextListClose ==
    \/ \E c \in Conns : \E parts \in ListCloseCmds(c) :
          nCmds[c] < ListBudget(c) /\ ProcessDispatch(c, parts)
    \/ \E c \in Conns : HandleAtomicStep(c)
    \/ \E c \in Conns : BLPopScan(c)
    \/ \E c \in Conns : BLPopTimeout(c)
    \/ \E c \in Closers : HangUp(c)
    \/ \E c \in Closers : Close(c)

SpecListClose == Init /\ [][NextListClose]_vars

\* The goroutines are scheduled: a handler that can take its next step takes
\* it, and a goroutine back at conn.Read of a connection its client has
\* closed gets the read error.
SpecListCloseFair ==
    /\ SpecListClose
    /\ \A c \in Conns : WF_vars(BLPopScan(c))
    /\ \A c \in Conns : WF_vars(BLPopTimeout(c))
    /\ \A c \in Conns : WF_vars(HandleAtomicStep(c))
    /\ \A c \in Closers : WF_vars(c \in peerClosed /\ Close(c))

\* ----------------------------------------------------- streams: the runs
\* Two connections add to stream s. The first sends an id inside and one
\* outside the test patterns, the least id, a partial id and a generated
\* one; the second sends the two explicit ids.
XAddIds == {"0-0", "1-1", "6-0", "1-*", "*"}

OtherXAddIds == {"1-1", "6-0"}

StreamCmds(c) ==
    IF c = "c1" THEN {<<"XADD", "s", id, "a", "1">> : id \in XAddIds}
    ELSE IF c = "c2" THEN {<<"XADD", "s", id, "a", "1">> : id \in OtherXAddIds}
    ELSE {}

StreamBudget(c) == IF c = "c1" THEN MaxAdds ELSE IF c = "c2" THEN MaxOther ELSE 0

NextStream ==
    \/ \E c \in Conns : \E parts \in StreamCmds(c) :
          nCmds[c] < StreamBudget(c) /\ ProcessDispatch(c, parts)
    \/ \E c \in Conns : XAddCheck(c)
    \/ \E c \in Conns : XAddSet(c)
    \/ \E c \in Conns : XAddNotify(c)

SpecStream == Init /\ [][NextStream]_vars

\* The first connection adds to stream s; the second writes, increments and
\* reads strings, one under the name of the stream and one under the name
\* made of the stream's name, a colon and an id; the third asks for the
\* entries and the type of s.
NameCmds(c) ==
    IF c = "c1" THEN {<<"XADD", "s", id, "a", "1">> : id \in {"1-1", "2-0"}}
    ELSE IF c = "c2"
    THEN {<<"SET", "s:1-1", "x">>, <<"INCR", "s:1-1">>, <<"GET", "s:1-1">>,
          <<"SET", "s", "x">>, <<"GET", "s">>}
    ELSE {<<"XRANGE", "s", "-", "+">>, <<"TYPE", "s">>}

NameBudget(c) ==
    IF c = "c1" THEN MaxAdds ELSE IF c = "c2" THEN MaxOther ELSE MaxReads

NextNames ==
    \/ \E c \in Conns : \E parts \in NameCmds(c) :
          nCmds[c] < NameBudget(c) /\ ProcessDispatch(c, parts)
    \/ \E c \in Conns : HandleAtomicStep(c)
    \/ \E c \in Conns : IncrGet(c)
    \/ \E c \in Conns : IncrSet(c)
    \/ \E c \in Conns : XAddCheck(c)
    \/ \E c \in Conns : XAddSet(c)
    \/ \E c \in Conns : XAddNotify(c)
    \/ \E c \in Conns : XRangeStep(c)

SpecNames == Init /\ [][NextNames]_vars

\* The first connection adds to stream s, with ids inside and above the
\* patterns getEntriesInRange looks for and with a generated id; the third
\* asks for ranges of s, whole, bounded and counted.
RangeAddIds == {"1-1", "2-0", "6-0", "*"}

XRangeCmds(c) ==
    IF c = "c1" THEN {<<"XADD", "s", id, "a", "1">> : id \in RangeAddIds}
    ELSE IF c = "c3"
    THEN {<<"XRANGE", "s", "-", "+">>, <<"XRANGE", "s", "1-1", "2-0">>,
          <<"XRANGE", "s", "2-0", "+">>, <<"XRANGE", "s", "-", "+", "COUNT", "1">>}
    ELSE {}

XRangeBudget(c) == IF c = "c1" THEN MaxAdds ELSE IF c = "c3" THEN MaxReads ELSE 0

NextXRange ==
    \/ \E c \in Conns : \E parts \in XRangeCmds(c) :
          nCmds[c] < XRangeBudget(c) /\ ProcessDispatch(c, parts)
    \/ \E c \in Conns : XAddCheck(c)
    \/ \E c \in Conns : XAddSet(c)
    \/ \E c \in Conns : XAddNotify(c)
    \/ \E c \in Conns : XRangeStep(c)

SpecXRange == Init /\ [][NextXRange]_vars

\* The first connection adds to stream s: ids inside the test patterns, the
\* pattern getEntriesAfterID leaves out, an id above the patterns and a
\* generated one. The third reads s, blocking or not, from the start or from
\* the last id.
ReadAddIds == {"1-1", "4-2", "6-0", "*"}

ReadCmds(c) ==
    IF c = "c1" THEN {<<"XADD", "s", id, "a", "1">> : id \in ReadAddIds}
    ELSE IF c = "c3"
    THEN {<<"XREAD", "BLOCK", "0", "STREAMS", "s", "$">>,
          <<"XREAD", "BLOCK", "1", "STREAMS", "s", "$">>,
          <<"XREAD", "BLOCK", "0", "STREAMS", "s", "0-0">>,
          <<"XREAD", "STREAMS", "s", "0-0">>,
          <<"XREAD", "STREAMS", "s", "1-1">>,
          <<"XREAD", "STREAMS", "s">>}
    ELSE {}

ReadBudget(c) == IF c = "c1" THEN MaxAdds ELSE IF c = "c3" THEN MaxReads ELSE 0

NextRead ==
    \/ \E c \in Conns : \E parts \in ReadCmds(c) :
          nCmds[c] < ReadBudget(c) /\ ProcessDispatch(c, parts)
    \/ \E c \in Conns : XAddCheck(c)
    \/ \E c \in Conns : XAddSet(c)
    \/ \E c \in Conns : XAddNotify(c)
    \/ \E c \in Conns : XReadStart(c)
    \/ \E c \in Conns : XReadNow(c)
    \/ \E c \in Conns : XReadSubscribe(c)
    \/ \E c \in Conns : XReadFirst(c)
    \/ \E c \in Conns : XReadDrain(c)
    \/ \E c \in Conns : XReadCheck(c)
    \/ \E c \in Conns : XReadTimeout(c)

SpecRead == Init /\ [][NextRead]_vars

\* The first connection adds to stream s while the third waits for entries
\* of s, with a timeout and without; Notify takes its two parts apart.
NotifyCmds(c) ==
    IF c = "c1" THEN {<<"XADD", "s", id, "a", "1">> : id \in {"1-1", "6-0"}}
    ELSE IF c = "c3"
    THEN {<<"XREAD", "BLOCK", "0", "STREAMS", "s", "0-0">>,
          <<"XREAD", "BLOCK", "1", "STREAMS", "s", "0-0">>}
    ELSE {}

NextNotify ==
    \/ \E c \in Conns : \E parts \in NotifyCmds(c) :
          Running /\ nCmds[c] < ReadBudget(c) /\ ProcessDispatch(c, parts)
    \/ \E c \in Conns : Running /\ XAddCheck(c)
    \/ \E c \in Conns : Running /\ XAddSet(c)
    \/ \E c \in Conns : NotifyLoad(c)
    \/ \E c \in Conns : NotifySend(c)
    \/ \E c \in Conns : Running /\ XReadStart(c)
    \/ \E c \in Conns : Running /\ XReadSubscribe(c)
    \/ \E c \in Conns : Running /\ XReadFirst(c)
    \/ \E c \in Conns : Running /\ XReadDrain(c)
    \/ \E c \in Conns : Running /\ XReadCheck(c)
    \/ \E c \in Conns : Running /\ XReadTimeout(c)

SpecNotify == Init /\ [][NextNotify]_vars

\* The step the handler of connection c's command takes next.
StreamStep(c) ==
    \/ XAddCheck(c) \/ XAddSet(c) \/ XAddNotify(c)
    \/ XReadStart(c) \/ XReadNow(c) \/ XReadSubscribe(c) \/ XReadFirst(c)
    \/ XReadDrain(c) \/ XReadCheck(c) \/ XReadTimeout(c)

\* The goroutines are scheduled: a handler that can take a step takes one
\* (a waiting XREAD looks at its channels and its timeout every 10 ms).
SpecReadFair == SpecRead /\ \A c \in Conns : WF_vars(StreamStep(c))

\* ------------------------------------------------------ frames: the runs
\* The frames the client of the first connection writes: commands, and
\* frames with a type byte that is none of RESP's, with a count that is no
\* number, with a negative count, with a bulk length that is no number.
CommandFrames ==
    {Frame(<<"SET", "k", "v">>), Frame(<<"GET", "k">>), Frame(<<"PING", "a\r\nb">>)}

MalformedFrames ==
    {"PING\r\n", "*x\r\n", "*-2\r\n", "*3\r\n$3\r\nSET\r\n$1\r\nk\r\n$x\r\nv\r\n"}

FrameBudget(c) == IF c = "c1" THEN MaxFrames ELSE 0

NextFrames ==
    \/ \E c \in Conns : \E frame \in CommandFrames \cup MalformedFrames :
          Len(wire[c].sent) < FrameBudget(c) /\ ClientWrite(c, frame)
    \/ \E c \in Conns : ReadStep(c)
    \/ \E c \in Conns : Running /\ HandleAtomicStep(c)
    \/ \E c \in Conns : PingStep(c)

SpecFrames == Init /\ [][NextFrames]_vars

\* ---------------------------------------------------------------- claims
Last(q) == q[Len(q)]

RECURSIVE Flatten(_)
Flatten(qs) == IF qs = <<>> THEN <<>> ELSE Head(qs) \o Flatten(Tail(qs))

\* The connection's transaction state, read off tm.states directly.
Queueing(c) == states[c].exists /\ states[c].InTransaction

\* This step is connection c reading command `parts`.
Reads(c, parts) == nCmds'[c] = nCmds[c] + 1 /\ cur'[c] = parts

TxNames == {"MULTI", "EXEC", "DISCARD"}

OkReply == WriteSimpleString("OK")

QueuedReply == WriteSimpleString("QUEUED")

ExecWithoutMulti == WriteError("ERR EXEC without MULTI")

DiscardWithoutMulti == WriteError("ERR DISCARD without MULTI")

\* The queue of connection c, as the parts of its commands.
RECURSIVE PartsOf(_)
PartsOf(q) == IF q = <<>> THEN <<>> ELSE <<Head(q).Parts>> \o PartsOf(Tail(q))

\* C2 (as claimed): EXEC on a Queueing connection leaves it Idle with an
\* empty queue, an empty queue is answered by the empty array, and when the
\* last queued command has run the connection gets exactly one more reply: the
\* array whose length is the number of queued commands and whose i-th element
\* is what the i-th queued command's handler wrote.
C2_ExecReplyIsResults ==
    /\ [][\A c \in Conns :
            (Queueing(c) /\ Reads(c, <<"EXEC">>)) =>
                /\ ~Queueing(c)'
                /\ states'[c].QueuedCommands = <<>>
                /\ states[c].QueuedCommands = <<>> =>
                        sock'[c] = Append(sock[c], WriteEmptyArray)
                /\ states[c].QueuedCommands # <<>> =>
                        /\ sock'[c] = sock[c]
                        /\ PartsOf(ex'[c].cmds) = PartsOf(states[c].QueuedCommands)
         ]_vars
    /\ [][\A c \in Conns :
            (ex[c].active /\ ~ex'[c].active) =>
                /\ Len(ex'[c].wrote) = Len(ex[c].cmds)
                /\ sock'[c] = Append(sock[c],
                        formatArrayHeader(Len(ex[c].cmds)) \o Flatten(ex'[c].wrote))
         ]_vars

C5_NestedMultiRejected ==
    [][\A c \in Conns :
        (Queueing(c) /\ Reads(c, <<"MULTI">>)) =>
            /\ sock'[c] = Append(sock[c],
                            WriteError("ERR MULTI calls can not be nested"))
            /\ states'[c] = states[c]
      ]_vars

\* C6 (as claimed): when the command a Queueing connection sent just before
\* EXEC failed the check (its name is not registered), EXEC replies EXECABORT,
\* runs none of the queued commands and leaves the connection Idle.
C6_ExecAbortsDirty ==
    [][\A c \in Conns :
        (Queueing(c) /\ cur[c] = <<"FOO">> /\ Reads(c, <<"EXEC">>)) =>
            /\ sock'[c] = Append(sock[c], WriteError(
                    "EXECABORT Transaction discarded because of previous errors."))
            /\ pc'[c] = "ready"
            /\ ~Queueing(c)'
      ]_vars

\* C7: DISCARD on a Queueing connection replies OK, empties the queue and
\* leaves the connection Idle without touching the stores; no command it
\* dropped is ever run by an EXEC; a connection becomes Queueing again only by
\* its own MULTI, and until then its EXEC replies ERR EXEC without MULTI.
C7_DiscardDropsQueue ==
    /\ [][\A c \in Conns :
            /\ (Queueing(c) /\ Reads(c, <<"DISCARD">>)) =>
                    /\ sock'[c] = Append(sock[c], OkReply)
                    /\ ~Queueing(c)'
                    /\ states'[c].QueuedCommands = <<>>
                    /\ pc'[c] = "ready"
                    /\ kv' = kv /\ lists' = lists
            /\ (~Queueing(c) /\ Queueing(c)') => Reads(c, <<"MULTI">>)
            /\ (~Queueing(c) /\ Reads(c, <<"EXEC">>)) =>
                    sock'[c] = Append(sock[c], ExecWithoutMulti)
         ]_vars
    /\ [](discarded \cap applied = {})
    /\ [](\A c \in Conns : \A j \in 1 .. Len(ex[c].cmds) :
            ex[c].active => ex[c].cmds[j].id \notin discarded)

\* C7 witness: a connection that queued a SET, discarded it and then sent
\* EXEC, which was refused; the SET never reached the store.
C7_Witness ==
    \E c \in Conns :
        /\ sock[c] = <<OkReply, QueuedReply, OkReply, ExecWithoutMulti>>
        /\ cur[c] = <<"EXEC">>
        /\ discarded = {<<c, 2>>}
        /\ kv = <<>>

\* C8: EXEC, respectively DISCARD, on an Idle connection replies ERR EXEC
\* without MULTI, respectively ERR DISCARD without MULTI, and changes neither
\* the transaction state of any connection nor the stores.
C8_IdleExecDiscardRefused ==
    [][\A c \in Conns :
        /\ (~Queueing(c) /\ Reads(c, <<"EXEC">>)) =>
                /\ sock'[c] = Append(sock[c], ExecWithoutMulti)
                /\ states' = states /\ kv' = kv /\ lists' = lists
                /\ pc'[c] = "ready"
        /\ (~Queueing(c) /\ Reads(c, <<"DISCARD">>)) =>
                /\ sock'[c] = Append(sock[c], DiscardWithoutMulti)
                /\ states' = states /\ kv' = kv /\ lists' = lists
                /\ pc'[c] = "ready"
      ]_vars

\* C8 witness: a connection that has finished a transaction (so it has a
\* TransactionState, not in a transaction) and then got both refusals.
C8_Witness ==
    \E c \in Conns :
        /\ states[c].exists /\ ~states[c].InTransaction
        /\ Len(sock[c]) >= 4
        /\ SubSeq(sock[c], 3, 4) = <<ExecWithoutMulti, DiscardWithoutMulti>>

\* C9 (as claimed): a queued INCR that finds a non-integer value when EXEC
\* runs it puts the error at its position of the results, leaves the value
\* as it is, and EXEC goes on to the next queued command.
C9_RuntimeErrorIsElement ==
    [][\A c \in Conns :
        (/\ ex[c].active /\ pc[c] = "handle"
         /\ CurParts(c) = <<"INCR", "k">>
         /\ HasKey(kv, "k") /\ ~Atoi(kv["k"].Value).ok
         /\ pc'[c] # "handle") =>
            /\ Len(ex'[c].results) = ex[c].i
            /\ formatRespValue(ex'[c].results[ex[c].i]) =
                    WriteError("ERR value is not an integer or out of range")
            /\ kv' = kv
            /\ ex[c].i < Len(ex[c].cmds) => pc'[c] = "execSet"
      ]_vars

\* C10 (as claimed): the element EXEC puts in its reply for a queued command
\* is the reply the command's handler would write outside a transaction on
\* the same stores.
C10_ElementEqualsDirectReply ==
    [][\A c \in Conns :
        (/\ ex[c].active /\ pc[c] = "handle"
         /\ CurParts(c)[1] \in AtomicNames
         /\ pc'[c] # "handle") =>
            formatRespValue(ex'[c].results[ex[c].i]) =
                HandleAtomic(CurParts(c), kv, lists).out
      ]_vars

\* A connection whose goroutine is inside BLPopHandler.Handle.
InBLPop(c) == pc[c] = "handle" /\ cur[c] # <<>> /\ cur[c][1] = "BLPOP"

\* C1 (as claimed): when a connection blocked in BLPOP on a key takes the
\* head of the key's list, that connection and no other receives the reply
\* [key, value], once; a connection that is still blocked has received
\* nothing for its BLPOP.
C1_PopperReceivesReply ==
    /\ [][\A c \in Conns :
            (InBLPop(c) /\ pc'[c] = "ready" /\ lists' # lists) =>
                /\ sock'[c] = Append(sock[c],
                        WriteArray(<<cur[c][2], Head(lists[cur[c][2]])>>))
                /\ \A d \in Conns \ {c} : sock'[d] = sock[d]
         ]_vars
    /\ [](\A c \in Conns : InBLPop(c) => Len(sock[c]) = nCmds[c] - 1)

\* The ids of the entries stored under a stream key.
StoredIDs(key) ==
    {p \in DOMAIN StreamIDs : HasKey(kv, key \o ":" \o StreamIDs[p])}

\* C4 (as claimed): an XADD stores its entry only under an id greater than
\* the id of every entry the stream holds, so the ids of the entries added
\* to a stream are strictly increasing.
C4_AddedIdsIncrease ==
    [][\A c \in Conns :
        (pc[c] = "xaddSet" /\ pc'[c] # "xaddSet") =>
            \A p \in StoredIDs(cur[c][2]) : isIDGreater(tmp[c].s, StreamIDs[p])
      ]_vars

\* C11: the TransactionState of a connection changes only in a step of that
\* connection itself: its MULTI, a command it queues, its EXEC, its DISCARD
\* or its close. Once the connection has closed it has no TransactionState
\* and no goroutine, and no command that was in its queue at the close (or at
\* a DISCARD) is ever run.
C11_TransactionStateIsolated ==
    /\ [][\A c \in Conns :
            /\ states'[c] # states[c] =>
                \/ /\ nCmds'[c] = nCmds[c] + 1
                   /\ cur'[c][1] \in HandlerNames
                   /\ cur'[c][1] \notin TxNames => Queueing(c)
                \/ pc[c] = "ready" /\ pc'[c] = "closed"
            /\ (pc[c] # "closed" /\ pc'[c] = "closed") =>
                /\ states'[c] = NoState
                /\ \A j \in 1 .. Len(states[c].QueuedCommands) :
                        states[c].QueuedCommands[j].id \in discarded'
            /\ pc[c] = "closed" =>
                /\ pc'[c] = "closed" /\ states'[c] = NoState
                /\ nCmds'[c] = nCmds[c] /\ sock'[c] = sock[c]
         ]_vars
    /\ [](\A id \in discarded : id \notin applied)

\* C11 witness: a connection closed with two commands in its queue, another
\* connection has run a command meanwhile, and the store holds nothing the
\* closed connection queued.
C11_Witness ==
    /\ pc["c1"] = "closed"
    /\ states["c1"] = NoState
    /\ {<<"c1", 2>>, <<"c1", 3>>} \subseteq discarded
    /\ cur["c1"] = <<"SET", "k", "x">>
    /\ nCmds["c2"] > 0 /\ pc["c2"] = "ready"
    /\ kv = ("k" :> [Value |-> "1", Expiry |-> NilTime])

\* C12: EXEC holds no lock across its block. Whenever a connection's EXEC has
\* run a queued command and has more to run, a write to the store that
\* another connection has pending can take effect at once, and the queued
\* command EXEC runs next reads the store as that write left it.
C12_ExecHoldsNoLock ==
    \A c \in Conns : \A d \in Conns \ {c} :
        (ex[c].active /\ ex[c].i > 1 /\ pc[c] = "execSet" /\ pc[d] = "incrSet")
            => ENABLED IncrSet(d)

\* C12 witness: EXEC of two INCR k has replied 1 and 3, and the INCR k of
\* another connection, run between the two, has replied 2 to that connection.
C12_Witness ==
    /\ ~ex["c1"].active
    /\ PartsOf(ex["c1"].cmds) = <<<<"INCR", "k">>, <<"INCR", "k">>>>
    /\ ex["c1"].wrote = <<WriteInteger(1), WriteInteger(3)>>
    /\ Last(sock["c1"]) = <<"*", "2", CRLF, ":", "1", CRLF, ":", "3", CRLF>>
    /\ sock["c2"] = <<WriteInteger(2)>>
    /\ kv = ("k" :> [Value |-> "3", Expiry |-> NilTime])

\* Connection d has a BLPOP on key as the command it read last.
ConsumerOf(d, key) ==
    /\ cur[d] # <<>>
    /\ cur[d][1] = "BLPOP"
    /\ \E j \in 2 .. (Len(cur[d]) - 1) : cur[d][j] = key

\* Connection c has received a reply [key, v] for some v.
GotElementOf(c, key) ==
    \E j \in 1 .. Len(sock[c]) :
        /\ Len(sock[c][j]) > 6
        /\ SubSeq(sock[c][j], 1, 6) = <<"*", "2", CRLF, "$", Itoa(Len(key)), CRLF>>
        /\ sock[c][j][7] = key

\* C13 (as claimed): a connection blocked in BLPOP q 0, once an element has
\* been pushed to q, eventually receives the reply [q, v], unless another
\* connection consumes from q.
C13_BlockedPopReplies ==
    \A c \in Conns :
        (/\ InBLPop(c) /\ cur[c] = <<"BLPOP", "q", "0">>
         /\ HasKey(lists, "q")
         /\ \A d \in Conns \ {c} : ~ConsumerOf(d, "q"))
        ~> (\/ GotElementOf(c, "q")
            \/ \E d \in Conns \ {c} : ConsumerOf(d, "q"))

\* Connection c has sent the one command INCR k and its Handle has returned.
DidOneIncr(c) == nCmds[c] = 1 /\ cur[c] = <<"INCR", "k">> /\ pc[c] = "ready"

\* C20 (as claimed): when two connections have each run one INCR k on the
\* missing key k, concurrently, and no other connection has sent a command,
\* k holds 2 and the two replies are 1 and 2 (no update is lost).
C20_IncrIsAtomic ==
    \A c, d \in Conns :
        (/\ c # d
         /\ DidOneIncr(c) /\ DidOneIncr(d)
         /\ \A e \in Conns \ {c, d} : nCmds[e] = 0)
        => /\ StoreGet(kv, "k").v = Itoa(2)
           /\ UNION {{sock[e][j] : j \in 1 .. Len(sock[e])} : e \in {c, d}}
                  = {WriteInteger(1), WriteInteger(2)}

\* Connection d is blocked in BLPOP on key: its immediate pass over the keys
\* has found nothing and it is in the polling loop.
BlockedOn(d, key) == InBLPop(d) /\ tmp[d].phase = "block" /\ ConsumerOf(d, key)

\* The BLPOP q 0 of connection c has returned: it has taken an element of q
\* (with timeout 0 Handle returns in no other way).
TookFromQ(c) == pc[c] = "ready" /\ cur[c] = <<"BLPOP", "q", "0">>

\* C15 (as claimed): waiters on a key are served in order of arrival: when
\* connection d is blocked on q before connection c has sent anything, and
\* later both are blocked on q with no element in any list, then c's
\* BLPOP q 0 never takes an element while d is still blocked.
C15_WaitersServedFIFO ==
    \A c, d \in Conns :
        [](BlockedOn(d, "q") /\ nCmds[c] = 0
             => [](BlockedOn(c, "q") /\ BlockedOn(d, "q") /\ lists = <<>>
                     => [](~(TookFromQ(c) /\ BlockedOn(d, "q")))))

\* The elements of the list under key (none when the key is missing).
Elems(ls, key) == IF HasKey(ls, key) THEN ls[key] ELSE <<>>

\* This step is the BLPOP of connection c popping from its j-th key.
PopsFrom(c, j) ==
    /\ InBLPop(c) /\ pc'[c] = "ready"
    /\ j \in 1 .. (Len(cur[c]) - 2)
    /\ Elems(lists, cur[c][j + 1]) # <<>>
    /\ Elems(lists', cur[c][j + 1]) = Tail(Elems(lists, cur[c][j + 1]))

\* C16 (as claimed): when a BLPOP pops from its j-th key, each of its
\* earlier keys holds no element at that moment.
C16_PopsFirstNonEmptyKey ==
    [][\A c \in Conns : \A j \in 1 .. 2 :
          PopsFrom(c, j) =>
              \A i \in 1 .. (j - 1) : Elems(lists, cur[c][i + 1]) = <<>>
      ]_vars

\* The BLPOP q p 0 of connection c has returned: it has taken an element
\* (with timeout 0 Handle returns in no other way).
TookFromQP(c) == pc[c] # "handle" /\ cur[c] = <<"BLPOP", "q", "p", "0">>

\* C17 (as claimed): once the client of a waiting BLPOP has closed the
\* connection, the BLPOP takes no element pushed after the close: from a
\* state where the client has closed, the BLPOP is in its polling loop and
\* the lists are empty, it never pops.
C17_ClosedWaiterPopsNothing ==
    \A c \in Conns :
        [](c \in peerClosed /\ InBLPop(c) /\ tmp[c].phase = "block" /\ lists = <<>>
             => [](~TookFromQP(c)))

\* The XREAD BLOCK of connection c has subscribed and has not returned.
Subscribed(c) == InXRead(c) /\ tmp[c].phase \in {"first", "wait", "notified"}

\* Some XADD on key has passed its checks with id and is about to store it.
Adding(key, id) ==
    \E d \in Conns : pc[d] = "xaddSet" /\ CurParts(d)[2] = key /\ tmp[d].s = id

\* The command connection c sent last has been answered by a stream result
\* (one stream with its entries).
GotEntries(c) ==
    /\ Len(sock[c]) > 0
    /\ Len(sock[c]) = nCmds[c]
    /\ Len(Last(sock[c])) > 3
    /\ SubSeq(Last(sock[c]), 1, 3) = formatArrayHeader(1)

\* The ids an entry of the runs can get.
AddedIDs ==
    {"1-1", "4-2", "6-0"} \cup {FormatID(now, q) : now \in Clock, q \in 0 .. MaxAdds}

\* The connections that read streams.
Readers == {c \in Conns : \E parts \in ReadCmds(c) : parts[1] = "XREAD"}

\* C18 (as claimed): when an XREAD BLOCK 0 is waiting on stream s from id b
\* and an XADD on s succeeds with an id greater than b, the XREAD eventually
\* replies with entries; and an XADD has stored its entry when it notifies.
C18_NoLostWakeup ==
    /\ \A c \in Readers :
          (/\ Subscribed(c) /\ tmp[c].n = 0
           /\ \E id \in AddedIDs :
                 Adding(tmp[c].keys[1], id) /\ isIDGreater(id, tmp[c].ids[1]))
          ~> GotEntries(c)
    /\ [](\A d \in Conns :
            pc[d] = "xaddNotify" => HasKey(kv, CurParts(d)[2] \o ":" \o tmp[d].s))

\* The XREAD of connection c has "$" as its start id.
FromLast(c) == InXRead(c) /\ Last(cur[c]) = "$"

\* The ids in a reply.
IdsIn(reply) == {id \in DOMAIN ParsedIDs : \E k \in 1 .. Len(reply) : reply[k] = id}

\* C19 (as claimed): "$" is resolved once, when the command starts: reading
\* from the resolved id at that moment returns nothing, the resolved id stays
\* the same while the command runs, every entry replied is after it, and a
\* blocking XREAD from "$" replies with entries once an entry is added.
C19_LastIdResolvedAtIssue ==
    /\ [][\A c \in Readers :
            /\ (FromLast(c) /\ tmp[c].phase = "" /\ tmp'[c].phase # "") =>
                  ReadStreams(kv, tmp'[c].keys, tmp'[c].ids) = <<>>
            /\ (FromLast(c) /\ tmp[c].phase # "" /\ tmp'[c].phase # "") =>
                  tmp'[c].ids = tmp[c].ids
            /\ (FromLast(c) /\ sock'[c] # sock[c]) =>
                  \A id \in IdsIn(Last(sock'[c])) : isIDAfter(id, tmp[c].ids[1])
        ]_vars
    /\ \A c \in Readers :
          (/\ FromLast(c) /\ cur[c][2] = "BLOCK" /\ cur[c][3] = "0"
           /\ tmp[c].phase # ""
           /\ \E id \in AddedIDs : Adding("s", id))
          ~> GotEntries(c)

\* The connections that send BLPOP with a positive timeout.
Timed == {c \in Conns : \E parts \in ListCmds(c) :
                           parts[1] = "BLPOP" /\ Last(parts) # "0"}

\* The command connection c sent last has been answered by the null array.
GotNullArray(c) ==
    /\ Len(sock[c]) > 0
    /\ Len(sock[c]) = nCmds[c]
    /\ Last(sock[c]) = WriteNullArray

\* Some connection has sent a push.
SomePush == \E d \in Conns : cur[d] # <<>> /\ cur[d][1] = "RPUSH"

\* C14 (as claimed): a BLPOP with a positive timeout for which no element
\* arrives is eventually answered by the null array, and the step that
\* writes a null array removes nothing from the lists.
C14_TimeoutRepliesNullArray ==
    /\ \A c \in Timed :
          (InBLPop(c) /\ Last(cur[c]) # "0") ~> (GotNullArray(c) \/ SomePush)
    /\ [][(\E d \in Conns : sock'[d] = Append(sock[d], WriteNullArray))
            => lists' = lists]_vars

\* The commands on lists.
ListOps == {"LPUSH", "RPUSH", "LPOP", "LRANGE", "LLEN", "BLPOP"}

WrongType ==
    WriteError("WRONGTYPE Operation against a key holding the wrong kind of value")

\* Key holds a string: GET would find it.
HoldsString(key) == StoreGet(kv, key).found

\* The handler connection c is running takes a step.
HandlerStep(c) == pc[c] # "ready" /\ (pc'[c] # pc[c] \/ tmp'[c] # tmp[c])

\* The step writes `bytes` as a reply to some connection.
Wrote(bytes) == \E d \in Conns : sock'[d] = Append(sock[d], bytes)

\* C21 (as claimed): no key is at once a string and a list, and a list
\* command on a key that holds a string replies the WRONGTYPE error and
\* changes neither the strings nor the lists.
C21_OneVariantPerKey ==
    /\ [](\A key \in DOMAIN lists : ~HoldsString(key))
    /\ [][\A c \in Conns :
            (/\ HandlerStep(c)
             /\ cur[c][1] \in ListOps
             /\ HoldsString(cur[c][2]))
                => /\ kv' = kv
                   /\ lists' = lists
                   /\ Wrote(WrongType)]_vars

\* The names of the strings the clients use.
StringKeys == {"k", "s", "s:1-1"}

\* What XRANGE s - +, TYPE key and GET key reply in a state.
XRangeAll(m) == XRangeHandle(<<"XRANGE", "s", "-", "+">>, m)

TypeOf(m, ls, key) == TypeHandle(<<"TYPE", key>>, m, ls).out

GetOf(m, ls, key) == GetHandle(<<"GET", key>>, m, ls).out

\* C22 (as claimed): a step of SET, GET or INCR changes neither what XRANGE
\* nor what TYPE replies for stream s, once s has entries, and a step of XADD
\* changes what GET replies for no string key.
C22_StreamsHaveOwnNamespace ==
    /\ [][\A c \in Conns :
            (/\ HandlerStep(c)
             /\ cur[c][1] \in {"SET", "GET", "INCR"}
             /\ TypeOf(kv, lists, "s") = WriteSimpleString("stream"))
                => /\ XRangeAll(kv') = XRangeAll(kv)
                   /\ TypeOf(kv', lists', "s") = TypeOf(kv, lists, "s")]_vars
    /\ [][\A c \in Conns :
            (HandlerStep(c) /\ cur[c][1] = "XADD")
                => \A key \in StringKeys :
                        GetOf(kv', lists', key) = GetOf(kv, lists, key)]_vars

\* The milliseconds a SET command with PX or EX as its only option asks for.
AskedExpiry(parts) ==
    IF parts[4] = "PX" THEN Atoi(parts[5]).v ELSE Atoi(parts[5]).v * 1000

\* C23 (as claimed): SET k v PX t (or EX s) stores v with the deadline t
\* milliseconds after the clock's reading; a GET of a key whose deadline has
\* passed replies the null bulk and removes the key, and a GET at or before
\* the deadline replies the value and removes nothing.
C23_ExpiredKeyReadsNull ==
    /\ [][\A c \in Conns :
            (/\ HandlerStep(c)
             /\ cur[c][1] = "SET" /\ Len(cur[c]) = 5)
                => /\ HasKey(kv', cur[c][2])
                   /\ kv'[cur[c][2]].Value = cur[c][3]
                   /\ kv'[cur[c][2]].Expiry = timeNow + AskedExpiry(cur[c])]_vars
    /\ [][\A c \in Conns :
            (/\ HandlerStep(c)
             /\ cur[c][1] = "GET"
             /\ HasKey(kv, cur[c][2])
             /\ kv[cur[c][2]].Expiry # NilTime)
                => IF timeNow > kv[cur[c][2]].Expiry
                   THEN /\ Wrote(WriteNullBulkString)
                        /\ ~HasKey(kv', cur[c][2])
                   ELSE /\ Wrote(WriteBulkString(kv[cur[c][2]].Value))
                        /\ kv' = kv]_vars

\* The handler of a pop, LPOP or BLPOP, takes a step for connection c.
PopStep(c) == HandlerStep(c) /\ cur[c][1] \in {"LPOP", "BLPOP"}

LLenOf(m, ls, key) == LLenHandle(<<"LLEN", key>>, m, ls).out

\* C24: every key of the list store has at least one element, and after a
\* step of LPOP or BLPOP that takes the last elements of a key's list the key
\* is absent: LLEN replies 0 and TYPE does not reply list.
C24_NoEmptyList ==
    /\ [](\A key \in DOMAIN lists : Len(lists[key]) >= 1)
    /\ [][\A c \in Conns :
            (/\ PopStep(c)
             /\ HasKey(lists, cur[c][2])
             /\ lists' # lists
             /\ ListOf(lists', cur[c][2]) = <<>>)
                => /\ ~HasKey(lists', cur[c][2])
                   /\ LLenOf(kv', lists', cur[c][2]) = WriteInteger(0)
                   /\ TypeOf(kv', lists', cur[c][2]) # WriteSimpleString("list")]_vars

\* The first connection has pushed a and b to k and popped both with one
\* LPOP; k is gone.
C24_Witness ==
    /\ cur["c1"] = <<"LPOP", "k", "3">>
    /\ pc["c1"] = "ready"
    /\ sock["c1"] # <<>>
    /\ Last(sock["c1"]) = WriteArray(<<"a", "b">>)
    /\ ~HasKey(lists, "k")

\* The reply a step appends to a connection's socket; <<>> if it appends none.
Written ==
    IF \E d \in Conns : Len(sock'[d]) > Len(sock[d])
    THEN Last(sock'[CHOOSE d \in Conns : Len(sock'[d]) > Len(sock[d])])
    ELSE <<>>

\* The number of elements a reply carries: a bulk string one, an array as
\* many as its header says, a null, an error or an integer none.
ValuesIn(b) ==
    IF b = <<>> \/ b[2] = "-1" THEN 0
    ELSE IF b[1] = "$" THEN 1
    ELSE IF b[1] = "*" THEN Atoi(b[2]).v
    ELSE 0

\* The values the step pushes to k: those of an LPUSH or RPUSH whose handler
\* answers with an integer.
PushedNow ==
    IF \E c \in Conns : /\ HandlerStep(c)
                         /\ cur[c][1] \in {"LPUSH", "RPUSH"} /\ cur[c][2] = "k"
                         /\ Written # <<>> /\ Written[1] = ":"
    THEN Len(cur[CHOOSE c \in Conns : HandlerStep(c)]) - 2
    ELSE 0

\* The values the step pops from k: those in the reply to an LPOP, and the
\* one that follows the key in the reply to a BLPOP.
PoppedNow ==
    IF \E c \in Conns : PopStep(c) /\ cur[c][1] = "LPOP" /\ cur[c][2] = "k"
    THEN ValuesIn(Written)
    ELSE IF \E c \in Conns : PopStep(c) /\ cur[c][1] = "BLPOP" /\ cur[c][2] = "k"
    THEN ValuesIn(Written) \div 2
    ELSE 0

\* C25: the length LLEN k replies is 0 at the start, grows at each step by
\* the number of values pushed and shrinks by the number of values popped,
\* is the number of elements LRANGE k 0 -1 replies, and is never negative.
C25_LengthAccounting ==
    /\ LLen(lists, "k").length = 0
    /\ [](/\ LLen(lists, "k").length = Len(LRange(lists, "k", 0, -1).values)
          /\ LLen(lists, "k").length >= 0
          /\ LLenOf(kv, lists, "k") = WriteInteger(LLen(lists, "k").length))
    /\ [][LLen(lists', "k").length
            = LLen(lists, "k").length + PushedNow - PoppedNow]_vars

\* The first connection has pushed two values, popped one and been told
\* the length 1.
C25_Witness ==
    /\ cur["c1"] = <<"LLEN", "k">>
    /\ pc["c1"] = "ready"
    /\ sock["c1"] = <<WriteInteger(2), WriteBulkString("a"), WriteInteger(1)>>
    /\ LLen(lists, "k").length = 1

\* Decimal arithmetic on numerals, digit by digit.
NextDigit ==
    ("0" :> "1") @@ ("1" :> "2") @@ ("2" :> "3") @@ ("3" :> "4") @@ ("4" :> "5")
        @@ ("5" :> "6") @@ ("6" :> "7") @@ ("7" :> "8") @@ ("8" :> "9")

PrevDigit ==
    ("1" :> "0") @@ ("2" :> "1") @@ ("3" :> "2") @@ ("4" :> "3") @@ ("5" :> "4")
        @@ ("6" :> "5") @@ ("7" :> "6") @@ ("8" :> "7") @@ ("9" :> "8")

\* the numeral of n + 1, for the numeral s of a natural number n
RECURSIVE DecInc(_)
DecInc(s) ==
    IF s = "" THEN "1"
    ELSE LET n == Len(s)
             last == SubSeq(s, n, n)
             init == SubSeq(s, 1, n - 1)
         IN  IF last = "9" THEN DecInc(init) \o "0" ELSE init \o NextDigit[last]

\* the digits of n - 1, for the numeral s of n >= 1; a leading 0 may remain
RECURSIVE DecDec(_)
DecDec(s) ==
    LET n == Len(s)
        last == SubSeq(s, n, n)
        init == SubSeq(s, 1, n - 1)
    IN  IF last = "0" THEN DecDec(init) \o "9" ELSE init \o PrevDigit[last]

RECURSIVE StripZeros(_)
StripZeros(s) ==
    IF Len(s) > 1 /\ SubSeq(s, 1, 1) = "0" THEN StripZeros(Tail(s)) ELSE s

\* the numeral of n + 1, for the numeral s of an integer n
DecSucc(s) ==
    IF SubSeq(s, 1, 1) = "-"
    THEN LET m == StripZeros(DecDec(Tail(s)))
         IN  IF m = "0" THEN "0" ELSE "-" \o m
    ELSE DecInc(s)

RECURSIVE AllDigits(_)
AllDigits(s) ==
    s = "" \/ (SubSeq(s, 1, 1) \in DOMAIN NextDigit \cup {"9"} /\ AllDigits(Tail(s)))

\* s is the numeral of an integer: digits, after a minus sign or not.
IsNumeral(s) ==
    /\ s # "" /\ s # "-"
    /\ AllDigits(IF SubSeq(s, 1, 1) = "-" THEN Tail(s) ELSE s)

NotAnInteger == WriteError("ERR value is not an integer or out of range")

\* C27 (as claimed): INCR of a key that holds the greatest signed 64-bit
\* integer replies the error and leaves the stores as they are, and no key
\* ever holds the least 64-bit integer, the value a wrap-around would give.
C27_IncrOverflowFails ==
    /\ [][\A c \in Conns :
            (/\ HandlerStep(c)
             /\ pc[c] = "handle"
             /\ cur[c] = <<"INCR", "k">>
             /\ StoreGet(kv, "k") = [found |-> TRUE, v |-> MaxInt64])
                => /\ Wrote(NotAnInteger)
                   /\ pc'[c] = "ready"
                   /\ kv' = kv]_vars
    /\ [](\A key \in DOMAIN kv : kv[key].Value # "-9223372036854775808")

\* What GET k would find.
Held == StoreGet(kv, "k")

\* C26 (as claimed): INCR k of an absent key stores 1 and replies 1; of a key
\* that holds the numeral of n it stores and replies the numeral of n + 1;
\* of a key that holds anything else it replies the error and changes
\* nothing.
C26_IncrSemantics ==
    /\ [][\A c \in Conns :
            (/\ HandlerStep(c)
             /\ pc[c] = "handle"
             /\ cur[c] = <<"INCR", "k">>
             /\ Held.found /\ ~IsNumeral(Held.v))
                => /\ Wrote(NotAnInteger)
                   /\ pc'[c] = "ready"
                   /\ kv' = kv]_vars
    /\ [][\A c \in Conns :
            (/\ HandlerStep(c)
             /\ pc[c] = "handle"
             /\ cur[c] = <<"INCR", "k">>
             /\ Held.found => IsNumeral(Held.v))
                => /\ pc'[c] = "incrSet"
                   /\ sock' = sock
                   /\ kv' = kv]_vars
    /\ [][\A c \in Conns :
            (/\ HandlerStep(c)
             /\ pc[c] = "incrSet"
             /\ cur[c] = <<"INCR", "k">>)
                => LET new == IF Held.found THEN DecSucc(Held.v) ELSE "1"
                   IN  /\ StoreGet(kv', "k") = [found |-> TRUE, v |-> new]
                       /\ Wrote(<<":", new, CRLF>>)
                       /\ pc'[c] = "ready"]_vars

\* The list store with the first n elements of key's list taken away.
AfterPop(ls, key, n) ==
    IF n >= Len(ListOf(ls, key)) THEN Without(ls, key)
    ELSE [ls EXCEPT ![key] = SubSeq(ls[key], n + 1, Len(ls[key]))]

\* C28 (as claimed): LPOP k count on a list removes its first
\* min(count, length) elements and replies them head first, so that count 0
\* removes nothing; LPOP k on a list removes the head and replies it as a
\* bulk string, and on an absent key replies the null bulk.
C28_LPopCount ==
    /\ [][\A c \in Conns :
            (/\ HandlerStep(c)
             /\ cur[c][1] = "LPOP" /\ Len(cur[c]) = 3
             /\ Atoi(cur[c][3]).ok /\ Atoi(cur[c][3]).v >= 0
             /\ HasKey(lists, cur[c][2]))
                => LET list == lists[cur[c][2]]
                       n == Min(Atoi(cur[c][3]).v, Len(list))
                   IN  /\ lists' = AfterPop(lists, cur[c][2], n)
                       /\ Wrote(WriteArray(SubSeq(list, 1, n)))]_vars
    /\ [][\A c \in Conns :
            (/\ HandlerStep(c)
             /\ cur[c][1] = "LPOP" /\ Len(cur[c]) = 2)
                => IF HasKey(lists, cur[c][2])
                   THEN /\ lists' = AfterPop(lists, cur[c][2], 1)
                        /\ Wrote(WriteBulkString(Head(lists[cur[c][2]])))
                   ELSE /\ lists' = lists
                        /\ Wrote(WriteNullBulkString)]_vars

RECURSIVE Reverse(_)
Reverse(q) == IF q = <<>> THEN <<>> ELSE Reverse(Tail(q)) \o <<Head(q)>>

\* The values of a push command.
Values(parts) == SubSeq(parts, 3, Len(parts))

\* C29: a step of RPUSH k v1 .. vn leaves the list of k, empty if k was
\* absent, followed by v1 .. vn; a step of LPUSH k v1 .. vn leaves vn .. v1
\* followed by the list; both reply the old length plus n, and touch no other
\* key.
C29_PushOrder ==
    [][\A c \in Conns :
         (/\ HandlerStep(c)
          /\ cur[c][1] \in {"RPUSH", "LPUSH"} /\ Len(cur[c]) >= 3)
             => LET key == cur[c][2]
                    old == IF key \in DOMAIN lists THEN lists[key] ELSE <<>>
                IN  /\ DOMAIN lists' = DOMAIN lists \cup {key}
                    /\ lists'[key] = IF cur[c][1] = "RPUSH"
                                      THEN old \o Values(cur[c])
                                      ELSE Reverse(Values(cur[c])) \o old
                    /\ \A k \in DOMAIN lists \ {key} : lists'[k] = lists[k]
                    /\ Wrote(WriteInteger(Len(old) + Len(cur[c]) - 2))]_vars

\* The first connection has sent RPUSH k a b to an absent key and then
\* LPUSH k c d: the list is d c a b and the replies are 2 and 4.
C29_Witness ==
    /\ cur["c1"] = <<"LPUSH", "k", "c", "d">>
    /\ pc["c1"] = "ready"
    /\ sock["c1"] = <<WriteInteger(2), WriteInteger(4)>>
    /\ HasKey(lists, "k")
    /\ lists["k"] = <<"d", "c", "a", "b">>

\* The elements of list at the positions start .. end, counted from 0 and,
\* when negative, from the end of the list: the positions of that interval
\* the list has, in order.
Selected(list, start, end) ==
    LET n == Len(list)
        lo == IF start < 0 THEN n + start ELSE start
        hi == IF end < 0 THEN n + end ELSE end
        I == {i \in 0 .. (n - 1) : lo <= i /\ i <= hi}
        first == CHOOSE m \in I : \A i \in I : m <= i
    IN  IF I = {} THEN <<>>
        ELSE [j \in 1 .. Cardinality(I) |-> list[first + j]]

\* C30: a step of LRANGE k s e replies, head first, the elements of k at
\* the positions s .. e that the list has, negative indices counted from the
\* end; the empty array for a reversed range, a start beyond the end and an
\* absent key; and it changes no list and no string.
C30_LRange ==
    [][\A c \in Conns :
         (/\ HandlerStep(c)
          /\ cur[c][1] = "LRANGE" /\ Len(cur[c]) = 4
          /\ Atoi(cur[c][3]).ok /\ Atoi(cur[c][4]).ok)
             => LET list == IF cur[c][2] \in DOMAIN lists THEN lists[cur[c][2]] ELSE <<>>
                    s == Atoi(cur[c][3]).v
                    e == Atoi(cur[c][4]).v
                    n == Len(list)
                IN  /\ Wrote(WriteArray(Selected(list, s, e)))
                    /\ (n = 0 \/ (s >= 0 /\ s >= n)
                            \/ (IF s < 0 THEN n + s ELSE s) > (IF e < 0 THEN n + e ELSE e))
                          => Wrote(WriteEmptyArray)
                    /\ lists' = lists
                    /\ kv' = kv]_vars

\* The second connection has asked LRANGE k -2 4 of the list a b c and been
\* answered b c: the start counted from the end, the end clamped.
C30_Witness ==
    /\ cur["c2"] = <<"LRANGE", "k", "-2", "4">>
    /\ pc["c2"] = "ready"
    /\ sock["c2"] = <<WriteArray(<<"b", "c">>)>>
    /\ ListOf(lists, "k") = <<"a", "b", "c">>

\* The ids, as pairs, an XADD of a run can store: small ones and those made
\* from the clock.
IdPairs == ((0 .. 6) \cup Clock) \X (0 .. 6)

\* The entries of stream key: the ids an XADD has stored.
Added(m, key) == {p \in IdPairs : HasKey(m, key \o ":" \o FormatID(p[1], p[2]))}

IdLess(p, q) == p[1] < q[1] \/ (p[1] = q[1] /\ p[2] < q[2])

\* the ids of a set in increasing order
RECURSIVE Ascending(_)
Ascending(S) ==
    IF S = {} THEN <<>>
    ELSE LET least == CHOOSE p \in S : \A q \in S \ {p} : IdLess(p, q)
         IN  <<least>> \o Ascending(S \ {least})

\* The pair an explicit id denotes.
PairOf(id) == CHOOSE p \in IdPairs : FormatID(p[1], p[2]) = id

\* The added ids of stream key from start to end, both included.
Between31(m, key, start, end) ==
    {p \in Added(m, key) :
        /\ start = "-" \/ ~IdLess(p, PairOf(start))
        /\ end = "+" \/ ~IdLess(PairOf(end), p)}

FirstN(q, n) == IF n > 0 /\ n < Len(q) THEN SubSeq(q, 1, n) ELSE q

EntryOf(p) == [ID |-> FormatID(p[1], p[2]), Fields |-> << <<"a", "1">> >>]

\* C31 (as claimed): a step of XRANGE s start end [COUNT n], taken when
\* every XADD that has stored its entry has replied, replies the entries of s
\* with an id from start to end, in increasing order of id, the first n of
\* them when a count is given.
C31_XRangeComplete ==
    [][\A c \in Conns :
         (/\ HandlerStep(c)
          /\ cur[c][1] = "XRANGE"
          /\ \A d \in Conns : pc[d] # "xaddNotify")
             => LET ids == Ascending(Between31(kv, cur[c][2], cur[c][3], cur[c][4]))
                    n == IF Len(cur[c]) = 6 THEN Atoi(cur[c][6]).v ELSE 0
                    want == FirstN(ids, n)
                IN  Wrote(WriteStreamEntries([i \in 1 .. Len(want) |-> EntryOf(want[i])]))]_vars

\* The added ids of stream key that are greater than id.
After32(m, key, id) == {p \in Added(m, key) : IdLess(PairOf(id), p)}

\* C32 (as claimed): the step in which XREAD STREAMS s id writes its reply,
\* taken when every XADD that has stored its entry has replied, writes the
\* entries of s with an id greater than id, in increasing order, and the
\* null array when there is none.
C32_XReadAfterId ==
    [][\A c \in Conns :
         (/\ HandlerStep(c)
          /\ cur[c][1] = "XREAD" /\ cur[c][2] = "STREAMS" /\ Len(cur[c]) = 4
          /\ Written # <<>>
          /\ \A d \in Conns : pc[d] # "xaddNotify")
             => LET want == Ascending(After32(kv, cur[c][3], cur[c][4]))
                IN  Wrote(IF want = <<>> THEN WriteNullArray
                          ELSE WriteStreamResults(
                                 <<[Key |-> cur[c][3],
                                    Entries |-> [i \in 1 .. Len(want) |->
                                                    EntryOf(want[i])]]>>))]_vars

\* C36 (as claimed): a step of the handler running for connection c writes
\* to no other connection, and the step in which the handler of a command
\* sent outside a transaction returns has written one reply to c.
C36_ReplyRouting ==
    /\ [][\A c \in Conns :
            HandlerStep(c) => \A d \in Conns \ {c} : sock'[d] = sock[d]]_vars
    /\ [][\A c \in Conns :
            (/\ HandlerStep(c)
             /\ ~ex[c].active
             /\ pc'[c] = "ready")
                => Len(sock'[c]) = Len(sock[c]) + 1]_vars

\* How many elements of a sequence are x.
RECURSIVE CountIn(_, _)
CountIn(q, x) ==
    IF q = <<>> THEN 0
    ELSE (IF Head(q) = x THEN 1 ELSE 0) + CountIn(Tail(q), x)

\* How many replies on the sockets of S are bytes.
RECURSIVE SumOver(_, _)
SumOver(S, bytes) ==
    IF S = {} THEN 0
    ELSE LET d == CHOOSE d \in S : TRUE
         IN  CountIn(sock[d], bytes) + SumOver(S \ {d}, bytes)

\* Connection c has a XADD that has passed its id check and not stored yet.
BetweenCheckAndSet(c) == pc[c] = "xaddSet"

\* C39 (as claimed): the explicit id 1-1 is replied to at most one XADD on
\* stream s, and while the XADD of one connection is between its id check
\* and its insertion no XADD of another connection on the same stream takes
\* a step.
C39_XAddCheckAndSetAtomic ==
    /\ [](SumOver(Conns, WriteBulkString("1-1")) <= 1)
    /\ [][\A c \in Conns : \A d \in Conns \ {c} :
            (/\ BetweenCheckAndSet(c)
             /\ cur[d] # <<>> /\ cur[d][1] = "XADD" /\ cur[d][2] = cur[c][2])
                => ~HandlerStep(d)]_vars

\* The elements of a sequence.
ElemsOf(q) == {q[i] : i \in 1 .. Len(q)}

\* The bulk strings of a reply: the one of a bulk string, the elements of an
\* array.
BulksIn(b) ==
    IF b = <<>> \/ b[2] = "-1" THEN <<>>
    ELSE IF b[1] = "$" THEN <<b[4]>>
    ELSE IF b[1] = "*" THEN [i \in 1 .. Atoi(b[2]).v |-> b[5 * i + 2]]
    ELSE <<>>

\* The elements the step pushes to k.
PushedValues ==
    IF PushedNow > 0
    THEN Values(cur[CHOOSE c \in Conns : HandlerStep(c)])
    ELSE <<>>

\* The elements the step returns from k: the bulk strings of the reply to
\* an LPOP, and the one after the key in the reply to a BLPOP.
PoppedValues ==
    IF \E c \in Conns : PopStep(c) /\ cur[c][1] = "LPOP" /\ cur[c][2] = "k"
    THEN BulksIn(Written)
    ELSE IF \E c \in Conns : PopStep(c) /\ cur[c][1] = "BLPOP" /\ cur[c][2] = "k"
    THEN (IF BulksIn(Written) = <<>> THEN <<>> ELSE Tail(BulksIn(Written)))
    ELSE <<>>

\* C40: the list of k is empty at the start, and at every step the elements
\* in the list afterwards together with those the step returns to a client
\* are, as a multiset, the elements in the list before together with those
\* the step pushes: no element is returned twice, lost or made up.
C40_ListConservation ==
    /\ ListOf(lists, "k") = <<>>
    /\ [][\A x \in ElemsOf(ListOf(lists, "k")) \cup ElemsOf(ListOf(lists', "k"))
                    \cup ElemsOf(PushedValues) \cup ElemsOf(PoppedValues) :
            CountIn(ListOf(lists', "k"), x) + CountIn(PoppedValues, x)
                = CountIn(ListOf(lists, "k"), x) + CountIn(PushedValues, x)]_vars

\* The first connection has pushed a and b and popped a, the second has
\* popped b with BLPOP, and the list is gone.
C40_Witness ==
    /\ sock["c1"] = <<WriteInteger(2), WriteBulkString("a")>>
    /\ sock["c2"] = <<WriteArray(<<"k", "b">>)>>
    /\ pc["c1"] = "ready" /\ pc["c2"] = "ready"
    /\ ~HasKey(lists, "k")

\* C38 (as claimed): a step of GET removes a key only if what the key holds
\* at that moment has expired, so that a value SET has stored and that has
\* not expired is never removed by a GET.
C38_LazyExpiryKeepsLiveValue ==
    [][\A c \in Conns :
         (/\ HandlerStep(c)
          /\ cur[c][1] = "GET"
          /\ HasKey(kv, cur[c][2])
          /\ ~HasKey(kv', cur[c][2]))
             => IsExpired(kv[cur[c][2]])]_vars

\* C37 (as claimed): no Notify sends on a channel that Unsubscribe has
\* closed, so no goroutine panics.
C37_NoSendOnClosedChannel == \A c \in Conns : pc[c] # "panic"

\* The bytes the read of connection c takes in this step.
Taken(c) == SubSeq(wire[c].buf, 1, Len(wire[c].buf) - Len(wire'[c].buf))

\* C33 (as claimed): a read that returns one malformed frame (unknown type
\* byte, or a length that is no number or is negative and not -1) is
\* answered -ERR unknown command on its connection, which stays open and
\* ready; no command is run, no store or transaction state changes, and no
\* goroutine panics.
C33_MalformedFrameRejected ==
    [][\A c \in Conns :
         (/\ pc[c] = "ready"
          /\ Len(wire'[c].buf) < Len(wire[c].buf)
          /\ Taken(c) \in MalformedFrames)
            => /\ sock'[c] = Append(sock[c], WriteError("ERR unknown command"))
               /\ pc'[c] = "ready"
               /\ nCmds' = nCmds
               /\ kv' = kv
               /\ lists' = lists
               /\ states' = states]_vars

\* C34 (as claimed): once a connection has read all its client wrote and
\* is ready again, every command frame the client wrote has been run once
\* and answered once, the last one last, however the bytes were split
\* across reads.
C34_EveryFrameOnce ==
    \A c \in Conns :
        (/\ wire[c].buf = ""
         /\ pc[c] = "ready"
         /\ \A i \in 1 .. Len(wire[c].sent) : wire[c].sent[i] \in CommandFrames)
            => /\ nCmds[c] = Len(wire[c].sent)
               /\ Len(sock[c]) = Len(wire[c].sent)
               /\ wire[c].sent # <<>>
                    => Frame(cur[c]) = wire[c].sent[Len(wire[c].sent)]

\* The bulk strings whose encodings the tokens t are.
RECURSIVE BulkItems(_)
BulkItems(t) ==
    IF Len(t) < 5 THEN <<>>
    ELSE <<RespValue("BulkString", FALSE, t[4], 0)>> \o BulkItems(SubSeq(t, 6, Len(t)))

\* The reply is one of the eight kinds the writer's plain methods encode.
IsPlainReply(t) ==
    \/ Len(t) = 3 /\ t[1] \in {"+", "-", ":"}
    \/ t \in {WriteNullBulkString, WriteNullArray}
    \/ Len(t) = 5 /\ t[1] = "$"
    \/ /\ t[1] = "*"
       /\ Len(t) = 3 + 5 * Atoi(t[2]).v
       /\ \A i \in 1 .. Atoi(t[2]).v : t[5 * i - 1] = "$"

\* The value a plain reply was encoded from.
Encoded(t) ==
    CASE t[1] = "+" -> RespValue("SimpleString", FALSE, t[2], 0)
      [] t[1] = "-" -> RespValue("ErrorType", FALSE, t[2], 0)
      [] t[1] = ":" -> RespValue("IntegerType", FALSE, "", Atoi(t[2]).v)
      [] t = WriteNullBulkString -> RespValue("BulkString", TRUE, "", 0)
      [] t = WriteNullArray -> RespArray(TRUE, <<>>)
      [] t[1] = "$" /\ t # WriteNullBulkString -> RespValue("BulkString", FALSE, t[4], 0)
      [] t[1] = "*" /\ t # WriteNullArray ->
            RespArray(FALSE, BulkItems(SubSeq(t, 4, Len(t))))

\* C35 (as claimed): every plain reply written to a socket, parsed with
\* ParseRESP, gives the value it was encoded from, and the parse consumes
\* exactly its bytes.
C35_RoundTrip ==
    \A c \in Conns : \A i \in 1 .. Len(sock[c]) :
        IsPlainReply(sock[c][i])
            => ParseRESP(Bytes(sock[c][i]), 1) =
                    Parsed(Encoded(sock[c][i]), Len(Bytes(sock[c][i])) + 1)
====
